---- MODULE Spec2Model ----
(***************************************************************************)
(* A model of wp_news_ops: the audit run of audit.py (audit_site and its   *)
(* stages), the rule engine of reporting.py (derive_issues) and the        *)
(* command surface of cli.py (main).                                       *)
(*                                                                         *)
(* Python values are modelled as follows.                                  *)
(*   None / a value      <<>> / <<v>>            (None, Some)              *)
(*   a URL               [host, path]: host a sequence of lower-case DNS   *)
(*                       labels, path a sequence of tokens, "/" being a    *)
(*                       token of its own; the scheme is that of the site  *)
(*   an href             a URL whose host may be <<>> (a relative link)    *)
(*   a site string       a sequence of tokens (" ", "https://", a host,    *)
(*                       "/", a path segment, "?q", "#f")                  *)
(*   a document          the record of what the parser finds in it         *)
(***************************************************************************)
EXTENDS Integers, Sequences, FiniteSets, TLC

VARIABLES
    pc,            \* the point the run has reached
    args,          \* argparse.Namespace: command, site, sample_size
    site,          \* normalized_site (None before normalize_site returned)
    requests,      \* every URL handed to session.request, in order
    discovery,     \* _audit_discovery's result under construction
    homepage,      \* [html, err]: _discover_feed_urls' homepage_html, homepage_err
    feeds,         \* _audit_feed's locals: discovered_feeds, feed_checks, best_feed
    feed,          \* _audit_feed's returned dict (None before it returned)
    articles,      \* _audit_articles' result under construction
    issues,        \* the last list derive_issues returned
    prev_issues,   \* the list the call before that returned
    calls,         \* how many times derive_issues was called
    files,         \* the output files written so far
    exit_code      \* main's return value (None while running)

vars == <<pc, args, site, requests, discovery, homepage, feeds, feed,
          articles, issues, prev_issues, calls, files, exit_code>>

None == <<>>
Some(v) == <<v>>
IsNone(o) == o = <<>>
Get(o) == o[1]

Range(s) == {s[i] : i \in DOMAIN s}

RECURSIVE SumSeq(_)
SumSeq(s) == IF s = <<>> THEN 0 ELSE Head(s) + SumSeq(Tail(s))

CountIf(s, P(_)) == Cardinality({i \in DOMAIN s : P(s[i])})

\* A left fold: a for loop over s that carries acc.
RECURSIVE Fold(_, _, _)
Fold(Op(_, _), acc, s) ==
    IF s = <<>> THEN acc ELSE Fold(Op, Op(acc, Head(s)), Tail(s))

(***************************************************************************)
(* URLs                                                                    *)
(***************************************************************************)
Url(host, path) == [host |-> host, path |-> path]

\* str.lower() on a token: the tokens of the model that have upper-case letters.
Lower(tok) ==
    CASE tok = "EX" -> "ex"
      [] tok = "Tag" -> "tag"
      [] tok = "Alternate" -> "alternate"
      [] tok = "Article" -> "article"
      [] tok = "NewsArticle" -> "newsarticle"
      [] tok = "BlogPosting" -> "blogposting"
      [] tok = "Person" -> "person"
      [] OTHER -> tok

LowerSeq(s) == [i \in DOMAIN s |-> Lower(s[i])]

\* urljoin(base, href) for a base of the form scheme://host/ : a relative href
\* keeps the base's host, an empty reference is the base itself.  An href whose
\* path starts with the token "file:" is an absolute URL without a netloc
\* (file:///a1): it is returned as it is, its host empty.
urljoin(base, href) ==
    IF href.host # <<>> THEN Url(href.host, href.path)
    ELSE IF href.path # <<>> /\ Head(href.path) = "file:" THEN Url(<<>>, Tail(href.path))
    ELSE IF href.path = <<>> THEN Url(base.host, <<"/">>)
    ELSE IF Head(href.path) = "/" THEN Url(base.host, href.path)
    ELSE Url(base.host, <<"/">> \o href.path)

\* str.endswith on label sequences: t ends with "." + h.
IsProperSuffix(h, t) ==
    /\ Len(h) < Len(t)
    /\ SubSeq(t, Len(t) - Len(h) + 1, Len(t)) = h

\* The sorted() of a set of values, given the values' universe in sorted order.
SortedBy(order, S) == SelectSeq(order, LAMBDA x : x \in S)

_same_domain(url, s) ==
    LET host == LowerSeq(s.host)
        target == LowerSeq(url.host)
    IN  target = host \/ IsProperSuffix(host, target)

(***************************************************************************)
(* normalize_site                                                          *)
(***************************************************************************)
SchemeTokens == {"http://", "https://"}

RECURSIVE lstrip(_)
lstrip(s) == IF s # <<>> /\ Head(s) = " " THEN lstrip(Tail(s)) ELSE s

RECURSIVE rstrip(_)
rstrip(s) ==
    IF s # <<>> /\ s[Len(s)] = " " THEN rstrip(SubSeq(s, 1, Len(s) - 1)) ELSE s

strip(s) == rstrip(lstrip(s))

\* The part of a scheme token before its "//".
SchemeName(tok) == IF tok = "http://" THEN "http:" ELSE "https:"

\* urlparse(...).netloc of a string that starts with a scheme token: what
\* follows the "//" up to the first "/", "?" or "#" (a second scheme token
\* gives its name and ends the netloc at its "//").
\* A netloc that ends at the first "/" only.
RECURSIVE TakeNetloc_to_slash(_)
TakeNetloc_to_slash(s) ==
    IF s = <<>> \/ Head(s) = "/" THEN <<>>
    ELSE IF Head(s) \in SchemeTokens THEN <<SchemeName(Head(s))>>
    ELSE <<Head(s)>> \o TakeNetloc_to_slash(Tail(s))

RECURSIVE TakeNetloc(_)
TakeNetloc(s) ==
    IF s = <<>> \/ Head(s) \in {"/", "?q", "#f"} THEN <<>>
    ELSE IF Head(s) \in SchemeTokens THEN <<SchemeName(Head(s))>>
    ELSE <<Head(s)>> \o TakeNetloc(Tail(s))

\* The DNS labels of a host token.
Labels(tok) ==
    CASE tok = "ex.com" -> <<"ex", "com">>
      [] tok = "EX.com" -> <<"EX", "com">>
      [] tok = "m.ex.com" -> <<"m", "ex", "com">>
      [] OTHER -> <<tok>>

RECURSIVE HostOf(_)
HostOf(netloc) ==
    IF netloc = <<>> THEN <<>> ELSE Labels(Head(netloc)) \o HostOf(Tail(netloc))

\* normalize_site without the netloc test of lines 34-35.
normalize_site_any_netloc(raw) ==
    LET stripped == strip(raw)
        withScheme == IF stripped # <<>> /\ Head(stripped) \in SchemeTokens
                      THEN stripped ELSE <<"https://">> \o stripped
        netloc == TakeNetloc(Tail(withScheme))
    IN  IF stripped = <<>>
        THEN [ok |-> FALSE, error |-> "Site URL cannot be empty."]
        ELSE [ok |-> TRUE,
              value |-> [scheme |-> Head(withScheme), netloc |-> netloc,
                         host |-> HostOf(netloc)]]

\* [ok |-> TRUE, value |-> the site] or [ok |-> FALSE, error |-> AuditError's text]
normalize_site(raw) ==
    LET stripped == strip(raw)
        withScheme == IF stripped # <<>> /\ Head(stripped) \in SchemeTokens
                      THEN stripped ELSE <<"https://">> \o stripped
        netloc == TakeNetloc(Tail(withScheme))
    IN  IF stripped = <<>>
        THEN [ok |-> FALSE, error |-> "Site URL cannot be empty."]
        ELSE IF netloc = <<>>
        THEN [ok |-> FALSE, error |-> "Invalid site URL"]
        ELSE [ok |-> TRUE,
              value |-> [scheme |-> Head(withScheme), netloc |-> netloc,
                         host |-> HostOf(netloc)]]

(***************************************************************************)
(* _safe_request: the fetch outcomes the environment can produce           *)
(***************************************************************************)
TransportError == [kind |-> "error", msg |-> "timeout"]
Response(code, body) == [kind |-> "response", status_code |-> code, body |-> body]

\* _safe_request with the exception's text dropped.
_safe_request_silent(outcome) ==
    IF outcome.kind = "error"
    THEN [resp |-> None, err |-> None]
    ELSE [resp |-> Some(outcome), err |-> None]

_safe_request(outcome) ==
    IF outcome.kind = "error"
    THEN [resp |-> None, err |-> Some(outcome.msg)]
    ELSE [resp |-> Some(outcome), err |-> None]

\* requests.Response.ok
Ok(resp) == resp.status_code < 400

\* `x if resp else None`: a Response is truthy only when it is ok.
Truthy(respOpt) == respOpt # None /\ Ok(Get(respOpt))

(***************************************************************************)
(* _parse_robots                                                           *)
(***************************************************************************)
\* A robots.txt is a sequence of lines [key, value]: the text before and after
\* the first ":" (comments and blank lines are already gone).  A value is a
\* sequence of tokens: "/", "?", a word.
LowerKey(key) ==
    CASE key = "Disallow" -> "disallow"
      [] key = "Sitemap" -> "sitemap"
      [] key = "User-agent" -> "user-agent"
      [] OTHER -> key

important_prefixes == <<"feed", "sitemap", "wp-sitemap", "news-sitemap", "sitemaps">>

\* `"/?feed" in clean or "/?sitemap" in clean`, on the token after "/", "?".
StartsWithFeedOrSitemap(tok) ==
    tok \in {"feed", "feed=rss2", "feedback", "sitemap", "sitemap=1", "sitemaps"}

\* The rule test with every "/?" rule taken as blocking.
IsBlockingRule_any_query(rule) ==
    LET clean == strip(rule)
    IN  IF clean = <<>> THEN FALSE
        ELSE IF clean = <<"/">> THEN TRUE
        ELSE IF Len(clean) >= 2 /\ clean[1] = "/" /\ clean[2] = "?" THEN TRUE
        ELSE \E k \in DOMAIN important_prefixes :
                /\ Len(clean) >= 2
                /\ clean[1] = "/"
                /\ clean[2] = important_prefixes[k]
                /\ (Len(clean) = 2 \/ clean[3] = "/")

IsBlockingRule(rule) ==
    LET clean == strip(rule)
    IN  IF clean = <<>> THEN FALSE
        ELSE IF clean = <<"/">> THEN TRUE
        ELSE IF Len(clean) >= 2 /\ clean[1] = "/" /\ clean[2] = "?"
        THEN \E i \in 1..(Len(clean) - 2) :
                /\ clean[i] = "/"
                /\ clean[i + 1] = "?"
                /\ StartsWithFeedOrSitemap(clean[i + 2])
        ELSE \E k \in DOMAIN important_prefixes :
                /\ Len(clean) >= 2
                /\ clean[1] = "/"
                /\ clean[2] = important_prefixes[k]
                /\ (Len(clean) = 2 \/ clean[3] = "/")

\* The Disallow values of the model, in Python's string order.
RuleOrder ==
    << <<>>,
       <<"/">>,
       <<"/", "?", "feed=rss2">>,
       <<"/", "?", "s=feed">>,
       <<"/", "feed">>,
       <<"/", "feed", "/">>,
       <<"/", "feeds">>,
       <<"/", "private">>,
       <<"/", "sitemap.xml">>,
       <<"/", "wp-sitemap", "/", "foo">> >>

_parse_robots(text) ==
    LET disallow_rules ==
            [i \in DOMAIN SelectSeq(text, LAMBDA l : LowerKey(l.key) = "disallow")
                |-> strip(SelectSeq(text, LAMBDA l : LowerKey(l.key) = "disallow")[i].value)]
        sitemap_lines ==
            [i \in DOMAIN SelectSeq(text, LAMBDA l : LowerKey(l.key) = "sitemap")
                |-> strip(SelectSeq(text, LAMBDA l : LowerKey(l.key) = "sitemap")[i].value)]
        blocking_hints == {strip(r) : r \in {x \in Range(disallow_rules) : IsBlockingRule(x)}}
    IN  [disallow_rules |-> disallow_rules,
         sitemap_lines |-> sitemap_lines,
         potentially_blocking_rules |-> SortedBy(RuleOrder, blocking_hints)]

(***************************************************************************)
(* _audit_discovery                                                        *)
(***************************************************************************)
SITEMAP_PATHS ==
    << <<"/", "sitemap.xml">>, <<"/", "sitemap_index.xml">>,
       <<"/", "wp-sitemap.xml">>, <<"/", "news-sitemap.xml">> >>

\* RobotsData with a robots.txt that could not be read counted as blocking.
RobotsData_blocking_when_unread(s, outcome) ==
    LET r == _safe_request(outcome)
        isOk == r.resp # None /\ Ok(Get(r.resp))
        parsed == IF isOk THEN _parse_robots(Get(r.resp).body)
                  ELSE [disallow_rules |-> << <<"/">> >>,
                        sitemap_lines |-> <<>>,
                        potentially_blocking_rules |-> << <<"/">> >>]
    IN  [url |-> urljoin(s, Url(<<>>, <<"robots.txt">>)),
         status |-> IF Truthy(r.resp) THEN Some(Get(r.resp).status_code) ELSE None,
         error |-> r.err,
         disallow_rules |-> parsed.disallow_rules,
         sitemap_lines |-> parsed.sitemap_lines,
         potentially_blocking_rules |-> parsed.potentially_blocking_rules]

\* Lines 109-121: the robots findings from the outcome of the robots.txt fetch.
RobotsData(s, outcome) ==
    LET r == _safe_request(outcome)
        base == [url |-> urljoin(s, Url(<<>>, <<"robots.txt">>)),
                 status |-> IF Truthy(r.resp) THEN Some(Get(r.resp).status_code) ELSE None,
                 error |-> r.err,
                 disallow_rules |-> <<>>,
                 sitemap_lines |-> <<>>,
                 potentially_blocking_rules |-> <<>>]
    IN  IF r.resp # None /\ Ok(Get(r.resp))
        THEN LET parsed == _parse_robots(Get(r.resp).body)
             IN  [base EXCEPT !.disallow_rules = parsed.disallow_rules,
                              !.sitemap_lines = parsed.sitemap_lines,
                              !.potentially_blocking_rules = parsed.potentially_blocking_rules]
        ELSE base

\* Lines 125-135: one sitemap probe (content type and lastmod hints left out).
SitemapEntry(s, path, outcome) ==
    LET r == _safe_request(outcome)
    IN  [path |-> path,
         url |-> urljoin(s, Url(<<>>, Tail(path))),
         status |-> IF r.resp # None THEN Some(Get(r.resp).status_code) ELSE None,
         error |-> r.err,
         exists |-> r.resp # None /\ Get(r.resp).status_code < 400]

(***************************************************************************)
(* _discover_feed_urls                                                     *)
(***************************************************************************)
\* A homepage document is [links, anchors]: its <link> elements [rel, type,
\* href] and the href of each <a>, in document order.
IsAlternateRel(rel) == \E i \in DOMAIN rel : Lower(rel[i]) = "alternate"

IsFeedMime(mime) == mime \in {"application/rss+xml", "application/atom+xml"}

EmptyHref == Url(<<>>, <<>>)

\* The feed URLs of the model, in Python's string order.
FeedUrlOrder(s) ==
    << Url(s.host, <<"/", "atom", "/">>),
       Url(s.host, <<"/", "broken", "/">>),
       Url(s.host, <<"/", "empty", "/">>),
       Url(s.host, <<"/", "feed", "/">>),
       Url(s.host, <<"/", "gone", "/">>),
       Url(s.host, <<"/", "page", "/">>),
       Url(s.host, <<"/", "rss", "/">>),
       Url(s.host, <<"/", "timeout", "/">>) >>

\* Lines 248: resp.text when the response is ok, else None.
HomepageHtml(outcome) ==
    LET r == _safe_request(outcome)
    IN  IF r.resp # None /\ Ok(Get(r.resp)) THEN Some(Get(r.resp).body) ELSE None

_discover_feed_urls(s, outcome) ==
    LET html == HomepageHtml(outcome)
        seed == {urljoin(s, Url(<<>>, <<"feed", "/">>))}
        found == IF html = None THEN {}
                 ELSE {urljoin(s, l.href) :
                         l \in {x \in Range(Get(html).links) :
                                  /\ x.href # EmptyHref
                                  /\ IsAlternateRel(x.rel)
                                  /\ IsFeedMime(x.type)}}
    IN  [urls |-> SortedBy(FeedUrlOrder(s), seed \cup found),
         html |-> html,
         err |-> _safe_request(outcome).err]

(***************************************************************************)
(* _parse_feed_xml                                                         *)
(***************************************************************************)
\* A feed document is [wellformed, root, channel, nodes]: whether ET.fromstring
\* accepts it, the root's tag, whether an rss root has a channel child, and the
\* children of the channel (rss) or of the root (feed), each [tag, link,
\* children] (title and date left out).  A child of a node is [tag, content,
\* media_image]: its tag, what _content_stats finds in its text (None for an
\* element without text, else [length, has_image, looks_excerpt]) and whether
\* its type or url attribute names an image.
_local_name(tag) ==
    CASE tag = "atom:feed" -> "feed"
      [] tag = "atom:entry" -> "entry"
      [] tag = "RSS" -> "rss"
      [] tag = "content:encoded" -> "encoded"
      [] tag = "media:content" -> "content"
      [] tag = "media:thumbnail" -> "thumbnail"
      [] OTHER -> tag

\* _content_stats of an empty string.
NoContent == [length |-> 0, has_image |-> FALSE, looks_excerpt |-> FALSE]

\* _content_stats of a child's text.
_content_stats(content) == IF content = None THEN NoContent ELSE Get(content)

ContentNames == {"encoded", "content", "summary", "description"}
MediaNames == {"enclosure", "content", "thumbnail"}

\* Lines 214-217: every child with a content name sets content_html anew.
ContentStep(content_html, child) ==
    IF _local_name(child.tag) \in ContentNames THEN child.content ELSE content_html

\* Lines 208-239: the item of one node.
FeedItem(node) ==
    LET content_html == Fold(ContentStep, None, node.children)
        stats == _content_stats(content_html)
        media == \E i \in DOMAIN node.children :
                    /\ _local_name(node.children[i].tag) \in MediaNames
                    /\ node.children[i].media_image
    IN  [link |-> node.link,
         has_image |-> media \/ stats.has_image,
         content_length |-> stats.length,
         looks_excerpt |-> stats.looks_excerpt]

ItemsOf(nodes, name) ==
    LET kept == SelectSeq(nodes, LAMBDA n : _local_name(n.tag) = name)
    IN  [i \in DOMAIN kept |-> FeedItem(kept[i])]

\* The parser with an unsupported root read as a feed root.
_parse_feed_xml_any_root(doc) ==
    IF ~doc.wellformed
    THEN [items |-> <<>>, parse_error |-> Some("ParseError")]
    ELSE IF _local_name(doc.root) = "rss"
    THEN IF ~doc.channel
         THEN [items |-> <<>>, parse_error |-> Some("RSS channel element is missing")]
         ELSE [items |-> ItemsOf(doc.nodes, "item"), parse_error |-> None]
    ELSE [items |-> ItemsOf(doc.nodes, "entry"), parse_error |-> None]

_parse_feed_xml(doc) ==
    IF ~doc.wellformed
    THEN [items |-> <<>>, parse_error |-> Some("ParseError")]
    ELSE IF _local_name(doc.root) = "rss"
    THEN IF ~doc.channel
         THEN [items |-> <<>>, parse_error |-> Some("RSS channel element is missing")]
         ELSE [items |-> ItemsOf(doc.nodes, "item"), parse_error |-> None]
    ELSE IF _local_name(doc.root) = "feed"
    THEN [items |-> ItemsOf(doc.nodes, "entry"), parse_error |-> None]
    ELSE [items |-> <<>>, parse_error |-> Some("Unsupported feed root element")]

(***************************************************************************)
(* _audit_feed                                                             *)
(***************************************************************************)
\* Qualifies without the `best_feed is None` test: the last usable feed wins.
Qualifies_last_wins(parsed, best_feed) ==
    parsed.parse_error = None /\ parsed.items # <<>>

\* Lines 283: whether this candidate becomes best_feed.
Qualifies(parsed, best_feed) ==
    parsed.parse_error = None /\ parsed.items # <<>> /\ best_feed = None

\* Lines 271-289: one pass of the loop over discovered_feeds.  Returns the
\* entry appended to feed_checks and the new best_feed.
CheckFeed(feed_url, outcome, best_feed) ==
    LET r == _safe_request(outcome)
        isOk == r.resp # None /\ Ok(Get(r.resp))
        parsed == IF isOk THEN _parse_feed_xml(Get(r.resp).body)
                  ELSE [items |-> <<>>, parse_error |-> None]
    IN  [entry |-> [url |-> feed_url,
                    status |-> IF Truthy(r.resp) THEN Some(Get(r.resp).status_code)
                               ELSE None,
                    error |-> r.err,
                    items |-> parsed.items,
                    parse_error |-> parsed.parse_error],
         best |-> IF isOk /\ Qualifies(parsed, best_feed)
                  THEN Some([url |-> feed_url,
                             status |-> Get(r.resp).status_code,
                             items |-> parsed.items])
                  ELSE best_feed]

ImageReason == "Feed items often do not include images."
ExcerptReason == "Feed content appears excerpt-only."
NoItemsReason == "No valid feed items were found."

\* ImageLight with `<=` for `<`.
ImageLight_inclusive(with_image, total) == 10 * with_image <= 7 * total

\* Lines 307, 310: the thresholds 0.7, 0.5 and 500 as exact comparisons (the
\* float quotients are correctly rounded, so they compare as the fractions do).
ImageLight(with_image, total) == 10 * with_image < 7 * total
ExcerptOnly(excerpt_like, sum_length, total) ==
    2 * excerpt_like > total \/ sum_length < 500 * total

\* A verdict that holds a feed without items to be free of risk.
RiskVerdict_empty_is_safe(selected_items) ==
    LET item_count == Len(selected_items)
        items_with_image == CountIf(selected_items, LAMBDA it : it.has_image)
        excerpt_like == CountIf(selected_items, LAMBDA it : it.looks_excerpt)
        sum_length == SumSeq([i \in DOMAIN selected_items |->
                                 selected_items[i].content_length])
        r0 == [risk |-> FALSE, reasons |-> <<>>]
        r1 == IF ImageLight(items_with_image, item_count)
              THEN [risk |-> TRUE, reasons |-> Append(r0.reasons, ImageReason)]
              ELSE r0
        r2 == IF ExcerptOnly(excerpt_like, sum_length, item_count)
              THEN [risk |-> TRUE, reasons |-> Append(r1.reasons, ExcerptReason)]
              ELSE r1
    IN  IF item_count # 0 THEN r2 ELSE r0

\* Lines 302-315: newsbreak_risk and risk_reasons.
RiskVerdict(selected_items) ==
    LET item_count == Len(selected_items)
        items_with_image == CountIf(selected_items, LAMBDA it : it.has_image)
        excerpt_like == CountIf(selected_items, LAMBDA it : it.looks_excerpt)
        sum_length == SumSeq([i \in DOMAIN selected_items |->
                                 selected_items[i].content_length])
        r0 == [risk |-> FALSE, reasons |-> <<>>]
        r1 == IF ImageLight(items_with_image, item_count)
              THEN [risk |-> TRUE, reasons |-> Append(r0.reasons, ImageReason)]
              ELSE r0
        r2 == IF ExcerptOnly(excerpt_like, sum_length, item_count)
              THEN [risk |-> TRUE, reasons |-> Append(r1.reasons, ExcerptReason)]
              ELSE r1
    IN  IF item_count # 0 THEN r2
        ELSE [risk |-> TRUE, reasons |-> <<NoItemsReason>>]

\* Lines 291-334: the dict _audit_feed returns.
FeedResult(discovered_feeds, feed_checks, best_feed, html, homepage_error) ==
    LET selected_items == IF best_feed # None THEN Get(best_feed).items ELSE <<>>
        verdict == RiskVerdict(selected_items)
    IN  [discovered_feed_urls |-> discovered_feeds,
         homepage_discovery_error |-> homepage_error,
         checked_feeds |-> feed_checks,
         selected_feed_url |-> IF best_feed # None THEN Some(Get(best_feed).url) ELSE None,
         selected_feed_status |->
             IF best_feed # None THEN Some(Get(best_feed).status) ELSE None,
         item_count |-> Len(selected_items),
         items_with_link |-> CountIf(selected_items, LAMBDA it : it.link # EmptyHref),
         items_with_image |-> CountIf(selected_items, LAMBDA it : it.has_image),
         excerpt_like_items |-> CountIf(selected_items, LAMBDA it : it.looks_excerpt),
         sum_content_length |->
             SumSeq([i \in DOMAIN selected_items |-> selected_items[i].content_length]),
         newsbreak_risk |-> verdict.risk,
         newsbreak_risk_reasons |-> verdict.reasons,
         items |-> selected_items,
         homepage_html |-> html]

(***************************************************************************)
(* _extract_article_urls                                                   *)
(***************************************************************************)
\* Line 425: any of "/tag/", "/category/", "/author/", "/wp-" in the path.
StartsWithWp(tok) == tok \in {"wp-content", "wp-json", "wp-admin"}

HasExcludedToken(path) ==
    \E i \in DOMAIN path :
        /\ path[i] = "/"
        /\ i + 1 <= Len(path)
        /\ \/ StartsWithWp(path[i + 1])
           \/ /\ path[i + 1] \in {"tag", "category", "author"}
              /\ i + 2 <= Len(path)
              /\ path[i + 2] = "/"

\* Lines 407-409 and 430-432: append, then return when the sample is full.
Collect(st, abs_url, sample_size) ==
    LET urls == Append(st.urls, abs_url)
    IN  [urls |-> urls,
         seen |-> st.seen \cup {abs_url},
         returned |-> Len(urls) >= sample_size]

\* Lines 397-409: one pass of the loop over the feed items.
FeedLinkStep(st, item, s, sample_size) ==
    IF st.returned \/ item.link = EmptyHref THEN st
    ELSE LET abs_url == urljoin(s, item.link)
         IN  IF ~_same_domain(abs_url, s) \/ abs_url \in st.seen THEN st
             ELSE Collect(st, abs_url, sample_size)

\* Lines 414-432: one pass of the loop over the homepage anchors.
AnchorStep(st, href, s, sample_size) ==
    IF st.returned \/ href = EmptyHref THEN st
    ELSE LET abs_url == urljoin(s, href)
             path == LowerSeq(abs_url.path)
         IN  IF \/ ~_same_domain(abs_url, s)
                \/ path = <<>>
                \/ path = <<"/">>
                \/ HasExcludedToken(path)
                \/ abs_url \in st.seen
             THEN st
             ELSE Collect(st, abs_url, sample_size)

_extract_article_urls(feed_data, s, sample_size) ==
    LET start == [urls |-> <<>>, seen |-> {}, returned |-> FALSE]
        pass1 == Fold(LAMBDA st, item : FeedLinkStep(st, item, s, sample_size),
                      start, feed_data.items)
        html == feed_data.homepage_html
        pass2 == IF pass1.returned \/ html = None THEN pass1
                 ELSE Fold(LAMBDA st, href : AnchorStep(st, href, s, sample_size),
                           pass1, Get(html).anchors)
    IN  pass2.urls

(***************************************************************************)
(* _audit_article                                                          *)
(***************************************************************************)
\* A page document is the record of what BeautifulSoup finds in it:
\* [size, canonical (the href of the canonical link, or None), robots (the
\* content of the robots meta), og_title, og_type, og_url, og_image (BOOLEAN:
\* non-empty), og_width, og_height (None or an integer), date_visible,
\* jsonld (its ld+json scripts, see below), render_blocking_scripts,
\* huge_inline_scripts].
RECURSIVE rstripSlash(_)
rstripSlash(path) ==
    IF path # <<>> /\ path[Len(path)] = "/"
    THEN rstripSlash(SubSeq(path, 1, Len(path) - 1))
    ELSE path

_normalize_url_for_compare(url) ==
    LET stripped == rstripSlash(url.path)
    IN  [host |-> LowerSeq(url.host),
         path |-> IF stripped = <<>> THEN <<"/">> ELSE stripped]

_urls_equivalent(url_a, url_b) ==
    LET a == _normalize_url_for_compare(url_a)
        b == _normalize_url_for_compare(url_b)
    IN  IF a.host # <<>> /\ b.host # <<>> /\ a.host # b.host THEN FALSE
        ELSE a.path = b.path

(***************************************************************************)
(* JSON-LD                                                                 *)
(***************************************************************************)
\* A JSON value of an ld+json script is [kind, type, fields, graph_is_list,
\* children]: an object ("object") with its @type, its required fields and,
\* as children, what its @graph holds (graph_is_list tells whether @graph is
\* a list), a list ("list") with its elements as children, or a string or
\* number ("scalar").  An @type is [kind, names]: a string ("str", one name),
\* a list ("list") or absent.  A plain field is None, Some("") or Some(text);
\* author and publisher are [kind, name, items]: absent, a string ("str"), an
\* object with its name (None when it has none) or a list with its items.
AbsentType == [kind |-> "absent", names |-> <<>>]
NoFields ==
    [headline |-> None, datePublished |-> None, dateModified |-> None, image |-> None,
     author |-> [kind |-> "absent", name |-> None, items |-> <<>>],
     publisher |-> [kind |-> "absent", name |-> None, items |-> <<>>]]

\* Lines 361-369: collect, over a value and over the elements of a list.
RECURSIVE collect(_)
RECURSIVE collect_each(_)
collect(node) ==
    IF node.kind = "object"
    THEN <<node>> \o (IF node.graph_is_list THEN collect_each(node.children) ELSE <<>>)
    ELSE IF node.kind = "list" THEN collect_each(node.children)
    ELSE <<>>
collect_each(nodes) ==
    IF nodes = <<>> THEN <<>> ELSE collect(Head(nodes)) \o collect_each(Tail(nodes))

\* Lines 371-380: the scripts in document order, each None when it is empty
\* or json.loads rejects it, else Some(value).
RECURSIVE _extract_jsonld_entities(_)
_extract_jsonld_entities(scripts) ==
    IF scripts = <<>> THEN <<>>
    ELSE (IF Head(scripts) = None THEN <<>> ELSE collect(Get(Head(scripts))))
         \o _extract_jsonld_entities(Tail(scripts))

_as_type_list(raw_type) ==
    IF raw_type.kind \in {"str", "list"} THEN LowerSeq(raw_type.names) ELSE <<>>

ArticleTypes == {"article", "newsarticle", "blogposting"}

\* Lines 507-509.
IsArticleEntity(entity) ==
    \E i \in DOMAIN _as_type_list(entity.type) : _as_type_list(entity.type)[i] \in ArticleTypes

\* bool(entity.get(field)) of a plain field.
HasValue(value) == value # None /\ Get(value) # ""

\* Any object counted as named, its name empty or absent included.
HasName_any_object(value) ==
    \/ value.kind = "object"
    \/ /\ value.kind = "list"
       /\ \E i \in DOMAIN value.items : value.items[i].kind = "object"

\* Lines 518-525: a dict with a truthy name, or a list holding such a dict.
HasName(value) ==
    \/ value.kind = "object" /\ HasValue(value.name)
    \/ /\ value.kind = "list"
       /\ \E i \in DOMAIN value.items :
             value.items[i].kind = "object" /\ HasValue(value.items[i].name)

\* Lines 504-531 of _audit_article: the jsonld entry of the finding.
JsonldFindings(scripts) ==
    LET entities == _extract_jsonld_entities(scripts)
        article_entities == SelectSeq(entities, IsArticleEntity)
        AnyArticle(P(_)) == \E i \in DOMAIN article_entities : P(article_entities[i])
        missing_fields ==
            IF article_entities = <<>> THEN {}
            ELSE {f \in {"headline", "datePublished", "dateModified", "image"} :
                     ~AnyArticle(LAMBDA e : HasValue(e.fields[f]))}
                 \cup (IF AnyArticle(LAMBDA e : HasName(e.fields.author))
                       THEN {} ELSE {"author.name"})
                 \cup (IF AnyArticle(LAMBDA e : HasName(e.fields.publisher))
                       THEN {} ELSE {"publisher.name"})
    IN  [entity_count |-> Len(entities),
         article_entity_count |-> Len(article_entities),
         missing_fields |-> missing_fields]

ContainsNoindex(content) == content \in {"noindex", "NOINDEX, follow"}

_audit_article(url, outcome) ==
    LET r == _safe_request(outcome)
    IN  IF r.resp = None
        THEN [url |-> url, status |-> None, error |-> r.err]
        ELSE
        LET doc == Get(r.resp).body
            canonical_url == IF doc.canonical # None /\ Get(doc.canonical) # EmptyHref
                             THEN Some(urljoin(url, Get(doc.canonical))) ELSE None
        IN  [url |-> url,
             status |-> Some(Get(r.resp).status_code),
             error |-> None,
             response_size_bytes |-> doc.size,
             canonical |->
                 [exists |-> canonical_url # None,
                  url |-> canonical_url,
                  consistent_with_url |->
                      IF canonical_url # None
                      THEN _urls_equivalent(Get(canonical_url), url) ELSE FALSE],
             meta_robots |-> [content |-> doc.robots,
                              noindex |-> ContainsNoindex(doc.robots)],
             open_graph |-> [og_title |-> doc.og_title,
                             og_type |-> doc.og_type,
                             og_url |-> doc.og_url,
                             og_image |-> doc.og_image,
                             og_image_width |-> doc.og_width,
                             og_image_height |-> doc.og_height],
             publication_date_visible_html |-> doc.date_visible,
             jsonld |-> JsonldFindings(doc.jsonld),
             performance |->
                 [render_blocking_scripts |-> doc.render_blocking_scripts,
                  huge_inline_scripts |-> doc.huge_inline_scripts]]

(***************************************************************************)
(* _summarize_articles                                                     *)
(***************************************************************************)
JsonldFields ==
    {"headline", "datePublished", "dateModified", "author.name", "publisher.name", "image"}

RenderBlockingThreshold == 8

\* A filter that keeps only the pages answered without an error status.
IsFetched_ok_only(page) == page.status # None /\ Get(page.status) \in 1..399

\* Line 584: `if page.get("status")`: a status that is neither None nor 0.
IsFetched(page) == page.status # None /\ Get(page.status) # 0

\* `not og.get(field)` for a field holding None or an integer.
Falsy(intOpt) == intOpt = None \/ Get(intOpt) = 0

\* A mismatch counted for every page that is not consistent, a page without
\* a canonical link included.
CanonicalMismatch_unguarded(page) == ~page.canonical.consistent_with_url

\* Lines 641-645: the pages counted under canonical_mismatch.
CanonicalMismatch(page) ==
    page.canonical.exists /\ ~page.canonical.consistent_with_url

_summarize_articles(pages) ==
    LET fetched == SelectSeq(pages, IsFetched)
        total == Len(fetched)
    IN  IF total = 0
        THEN [sampled |-> Len(pages),
              fetched |-> 0,
              missing_canonical |-> 0,
              canonical_mismatch |-> 0,
              noindex_pages |-> 0,
              missing_og_fields |->
                  [og_title |-> 0, og_type |-> 0, og_url |-> 0, og_image |-> 0],
              missing_publication_date_html |-> 0,
              missing_jsonld_article |-> 0,
              jsonld_missing_field_counts |-> [f \in JsonldFields |-> 0],
              avg_response_size_bytes |-> 0,
              high_blocking_script_pages |-> 0,
              huge_inline_script_pages |-> 0,
              missing_og_image_dimensions |-> 0]
        ELSE [sampled |-> Len(pages),
              fetched |-> total,
              missing_canonical |->
                  CountIf(fetched, LAMBDA pg : ~pg.canonical.exists),
              canonical_mismatch |-> CountIf(fetched, CanonicalMismatch),
              noindex_pages |-> CountIf(fetched, LAMBDA pg : pg.meta_robots.noindex),
              missing_og_fields |->
                  [og_title |-> CountIf(fetched, LAMBDA pg : ~pg.open_graph.og_title),
                   og_type |-> CountIf(fetched, LAMBDA pg : ~pg.open_graph.og_type),
                   og_url |-> CountIf(fetched, LAMBDA pg : ~pg.open_graph.og_url),
                   og_image |-> CountIf(fetched, LAMBDA pg : ~pg.open_graph.og_image)],
              missing_publication_date_html |->
                  CountIf(fetched, LAMBDA pg : ~pg.publication_date_visible_html),
              missing_jsonld_article |->
                  CountIf(fetched, LAMBDA pg : pg.jsonld.article_entity_count = 0),
              jsonld_missing_field_counts |->
                  [f \in JsonldFields |->
                      CountIf(fetched, LAMBDA pg : f \in pg.jsonld.missing_fields)],
              avg_response_size_bytes |->
                  SumSeq([i \in DOMAIN fetched |-> fetched[i].response_size_bytes])
                      \div total,
              high_blocking_script_pages |->
                  CountIf(fetched, LAMBDA pg : pg.performance.render_blocking_scripts
                                                  >= RenderBlockingThreshold),
              huge_inline_script_pages |->
                  CountIf(fetched, LAMBDA pg : pg.performance.huge_inline_scripts > 0),
              missing_og_image_dimensions |->
                  CountIf(fetched, LAMBDA pg : \/ Falsy(pg.open_graph.og_image_width)
                                                \/ Falsy(pg.open_graph.og_image_height))]

(***************************************************************************)
(* derive_issues                                                           *)
(***************************************************************************)
\* _ratio as the fraction it returns: 0.0 when total <= 0, else count / total.
_ratio(count, total) ==
    IF total <= 0 THEN [num |-> 0, den |-> 1] ELSE [num |-> count, den |-> total]

\* `ratio >= 0.2` in place of `ratio > 0.2`.
AtLeastFifth(ratio) == 5 * ratio.num >= ratio.den

\* `ratio > 0.2` and `ratio > 0.5` on the fraction.
OverFifth(ratio) == 5 * ratio.num > ratio.den
OverHalf(ratio) == 2 * ratio.num > ratio.den

HeavyResponseBytes == 1500000

Issue(priority, title) == [priority |-> priority, title |-> title]

\* Lines 21-153: the rules in the order the function evaluates them, each with
\* its condition and the issue it appends.
Rules(audit) ==
    LET robots == audit.discovery.robots
        sitemaps == audit.discovery.sitemaps
        fd == audit.feed
        summary == audit.articles.summary
        fetched == summary.fetched
    IN  << [cond |-> robots.potentially_blocking_rules # <<>>,
            issue |-> Issue("P0", "robots.txt may block news discovery paths")],
           [cond |-> ~(\E i \in DOMAIN sitemaps : sitemaps[i].exists),
            issue |-> Issue("P0", "No sitemap endpoint was reachable")],
           [cond |-> fd.item_count = 0,
            issue |-> Issue("P0", "No valid RSS feed items found")],
           [cond |-> fetched > 0 /\ summary.noindex_pages > 0,
            issue |-> Issue("P0", "Some sampled articles are marked noindex")],
           [cond |-> fetched > 0 /\ OverFifth(_ratio(summary.missing_canonical, fetched)),
            issue |-> Issue("P1", "Canonical tags are missing on many sampled articles")],
           [cond |-> fetched > 0 /\ OverFifth(_ratio(summary.canonical_mismatch, fetched)),
            issue |-> Issue("P1", "Canonical URL mismatches article URL on sampled pages")],
           [cond |-> fd.newsbreak_risk,
            issue |-> Issue("P1", "Feed has elevated NewsBreak ingestion risk")],
           [cond |-> fetched > 0
                     /\ OverFifth(_ratio(summary.missing_og_fields.og_image, fetched)),
            issue |-> Issue("P1", "Open Graph images are missing on many sampled articles")],
           [cond |-> fetched > 0
                     /\ OverFifth(_ratio(summary.missing_jsonld_article, fetched)),
            issue |-> Issue("P1", "JSON-LD Article/NewsArticle schema is missing on sampled pages")],
           [cond |-> fetched > 0
                     /\ OverFifth(_ratio(summary.missing_publication_date_html, fetched)),
            issue |-> Issue("P1", "Publication date is not clearly visible in article HTML")],
           [cond |-> fetched > 0 /\ summary.avg_response_size_bytes > HeavyResponseBytes,
            issue |-> Issue("P2", "Average sampled article response size is heavy")],
           [cond |-> fetched > 0 /\ summary.high_blocking_script_pages > 0,
            issue |-> Issue("P2", "Potential render-blocking scripts detected")],
           [cond |-> fetched > 0
                     /\ OverHalf(_ratio(summary.missing_og_image_dimensions, fetched)),
            issue |-> Issue("P2", "og:image dimensions are often missing")] >>

\* A list kept between the calls in place of line 14's fresh one.
StaleIssueList == issues

\* Line 14: the list the function starts from.
NewIssueList == <<>>

\* Line 155: the sort key, and Python's order of the three priority strings.
PriorityKey(issue) ==
    CASE issue.priority = "P0" -> 0
      [] issue.priority = "P1" -> 1
      [] issue.priority = "P2" -> 2

\* An insertion of x before the elements whose key equals its own.
RECURSIVE InsertByKey_before_equals(_, _)
InsertByKey_before_equals(sorted_, x) ==
    IF sorted_ = <<>> THEN <<x>>
    ELSE IF PriorityKey(x) <= PriorityKey(Head(sorted_)) THEN <<x>> \o sorted_
    ELSE <<Head(sorted_)>> \o InsertByKey_before_equals(Tail(sorted_), x)

\* sorted(): a stable insertion of x behind every element whose key is <= its own.
RECURSIVE InsertByKey(_, _)
InsertByKey(sorted_, x) ==
    IF sorted_ = <<>> THEN <<x>>
    ELSE IF PriorityKey(x) < PriorityKey(Head(sorted_)) THEN <<x>> \o sorted_
    ELSE <<Head(sorted_)>> \o InsertByKey(Tail(sorted_), x)

sorted(list) == Fold(InsertByKey, <<>>, list)

derive_issues(audit) ==
    LET rules == Rules(audit)
        appended == Fold(LAMBDA acc, rule : IF rule.cond THEN Append(acc, rule.issue)
                                             ELSE acc,
                         NewIssueList, rules)
    IN  sorted(appended)

\* Lines 314-327.
build_report_payload(audit) ==
    LET found == derive_issues(audit)
    IN  [site |-> audit.site,
         priority_counts |->
             [P0 |-> CountIf(found, LAMBDA x : x.priority = "P0"),
              P1 |-> CountIf(found, LAMBDA x : x.priority = "P1"),
              P2 |-> CountIf(found, LAMBDA x : x.priority = "P2")],
         issues |-> found,
         audit |-> audit]

(***************************************************************************)
(* The environment of one run: command lines and fetch outcomes            *)
(***************************************************************************)
MaxSampleSize == 2

ValidSite == <<"ex.com", "/", "a">>
SiteInputs == {<<>>, <<" ", " ">>, <<"https://">>, <<" ", "/", "a">>, ValidSite}
Commands == {"audit", "report"}
SampleSizes == {0, MaxSampleSize}

Href(path) == Url(<<>>, path)

PlainRobots ==
    << [key |-> "User-agent", value |-> <<"*">>],
       [key |-> "Disallow", value |-> <<"/", "private">>] >>

BlockingRobots ==
    << [key |-> "Disallow", value |-> <<"/", "feed", "/">>],
       [key |-> "disallow", value |-> <<"/">>],
       [key |-> "Disallow", value |-> <<"/", "feed", "/">>] >>

RobotsTexts == {PlainRobots, BlockingRobots}

PlainHomepage ==
    [links |-> << [rel |-> <<"stylesheet">>, type |-> "text/css",
                   href |-> Href(<<"/", "style.css">>)] >>,
     anchors |-> << Href(<<"/", "tag", "/", "news">>), Href(<<"/", "a1">>) >>]

LinkedHomepage ==
    [links |-> << [rel |-> <<"Alternate">>, type |-> "application/atom+xml",
                   href |-> Href(<<"/", "atom", "/">>)] >>,
     anchors |-> << Href(<<"/", "feed", "/">>) >>]

HomepageDocs == {PlainHomepage, LinkedHomepage}

\* A child element with text, and one with attributes only.
TextChild(tag, image, length, excerpt) ==
    [tag |-> tag,
     content |-> Some([length |-> length, has_image |-> image, looks_excerpt |-> excerpt]),
     media_image |-> FALSE]
MediaChild(tag, image) == [tag |-> tag, content |-> None, media_image |-> image]

\* A node whose content is in one description child.
Node(tag, path, image, length, excerpt) ==
    [tag |-> tag, link |-> Href(path),
     children |-> << TextChild("description", image, length, excerpt) >>]

MalformedFeed == [wellformed |-> FALSE, root |-> "rss", channel |-> FALSE, nodes |-> <<>>]
EmptyFeed == [wellformed |-> TRUE, root |-> "rss", channel |-> TRUE, nodes |-> <<>>]
RssFeed ==
    [wellformed |-> TRUE, root |-> "rss", channel |-> TRUE,
     nodes |-> << Node("item", <<"/", "a1">>, TRUE, 800, FALSE),
                  Node("item", <<"/", "a2">>, TRUE, 600, FALSE) >>]

FeedDocs == {MalformedFeed, EmptyFeed, RssFeed}

\* A NewsArticle object with every required field.
NamedObject == [kind |-> "object", name |-> Some("x"), items |-> <<>>]
CompleteArticle ==
    [kind |-> "object", type |-> [kind |-> "str", names |-> <<"NewsArticle">>],
     fields |-> [headline |-> Some("x"), datePublished |-> Some("x"),
                 dateModified |-> Some("x"), image |-> Some("x"),
                 author |-> NamedObject, publisher |-> NamedObject],
     graph_is_list |-> FALSE, children |-> <<>>]

Page(canonical, robots, complete, size, scripts) ==
    [size |-> size, canonical |-> canonical, robots |-> robots,
     og_title |-> complete, og_type |-> complete, og_url |-> complete,
     og_image |-> complete,
     og_width |-> IF complete THEN Some(1200) ELSE None,
     og_height |-> IF complete THEN Some(630) ELSE None,
     date_visible |-> complete,
     jsonld |-> IF complete THEN <<Some(CompleteArticle)>> ELSE <<>>,
     render_blocking_scripts |-> scripts,
     huge_inline_scripts |-> 0]

ErrorPage == Page(None, "", FALSE, 500, 0)

FetchOutcomes(docs) ==
    {TransportError} \cup {Response(200, d) : d \in docs}

(***************************************************************************)
(* The run: cli.main, audit_site and its stages                            *)
(***************************************************************************)
\* build_parser: the command lines (audit's optional --json-out is left out:
\* audit prints its summary, report writes its two files).
CommandLines(sites, sizes) == [command : Commands, site : sites, sample_size : sizes]

NoDiscovery == [robots |-> None, sitemaps |-> <<>>]
NoFeeds == [discovered |-> <<>>, checks |-> <<>>, best |-> None]
NoArticles == [sample_urls |-> <<>>, pages |-> <<>>, summary |-> None]

Init ==
    /\ pc = "main"
    /\ args \in CommandLines(SiteInputs, SampleSizes)
    /\ site = None
    /\ requests = <<>>
    /\ discovery = NoDiscovery
    /\ homepage = [html |-> None, err |-> None]
    /\ feeds = NoFeeds
    /\ feed = None
    /\ articles = NoArticles
    /\ issues = <<>>
    /\ prev_issues = <<>>
    /\ calls = 0
    /\ files = {}
    /\ exit_code = None

\* cli.main up to audit_site's normalize_site: an AuditError ends the run with 2.
Main ==
    /\ pc = "main"
    /\ LET n == normalize_site(args.site)
       IN  IF n.ok
           THEN /\ site' = Some(n.value)
                /\ pc' = "robots"
                /\ exit_code' = exit_code
           ELSE /\ site' = site
                /\ pc' = "exit"
                /\ exit_code' = Some(2)
    /\ UNCHANGED <<args, requests, discovery, homepage, feeds, feed, articles,
                   issues, prev_issues, calls, files>>

\* _audit_discovery, lines 108-121.
FetchRobots ==
    /\ pc = "robots"
    /\ \E outcome \in FetchOutcomes(RobotsTexts) \cup {Response(404, <<>>)} :
          LET data == RobotsData(Get(site), outcome)
          IN  /\ discovery' = [discovery EXCEPT !.robots = Some(data)]
              /\ requests' = Append(requests, data.url)
    /\ pc' = "sitemaps"
    /\ UNCHANGED <<args, site, homepage, feeds, feed, articles, issues,
                   prev_issues, calls, files, exit_code>>

\* _audit_discovery, lines 124-136: one pass of the loop over SITEMAP_PATHS.
FetchSitemap ==
    /\ pc = "sitemaps"
    /\ \E outcome \in FetchOutcomes({<<>>}) \cup {Response(404, <<>>)} :
          LET path == SITEMAP_PATHS[Len(discovery.sitemaps) + 1]
              entry == SitemapEntry(Get(site), path, outcome)
          IN  /\ discovery' = [discovery EXCEPT !.sitemaps = Append(@, entry)]
              /\ requests' = Append(requests, entry.url)
    /\ pc' = IF Len(discovery.sitemaps) + 1 = Len(SITEMAP_PATHS)
             THEN "homepage" ELSE "sitemaps"
    /\ UNCHANGED <<args, site, homepage, feeds, feed, articles, issues,
                   prev_issues, calls, files, exit_code>>

\* _audit_feed, line 265: _discover_feed_urls.
DiscoverFeedUrls ==
    /\ pc = "homepage"
    /\ \E outcome \in FetchOutcomes(HomepageDocs) \cup {Response(404, PlainHomepage)} :
          LET found == _discover_feed_urls(Get(site), outcome)
          IN  /\ homepage' = [html |-> found.html, err |-> found.err]
              /\ feeds' = [discovered |-> found.urls, checks |-> <<>>, best |-> None]
    /\ requests' = Append(requests, Url(Get(site).host, <<"/">>))
    /\ pc' = "feeds"
    /\ UNCHANGED <<args, site, discovery, feed, articles, issues, prev_issues,
                   calls, files, exit_code>>

\* A pass that requests the candidate a second time when the request failed.
FetchFeed_retrying ==
    /\ pc = "feeds"
    /\ \E outcome \in FetchOutcomes(FeedDocs) \cup {Response(404, MalformedFeed)} :
          LET feed_url == feeds.discovered[Len(feeds.checks) + 1]
              checked == CheckFeed(feed_url, outcome, feeds.best)
          IN  /\ feeds' = [feeds EXCEPT !.checks = Append(@, checked.entry),
                                        !.best = checked.best]
              /\ requests' = IF outcome = TransportError
                             THEN requests \o <<feed_url, feed_url>>
                             ELSE Append(requests, feed_url)
    /\ pc' = IF Len(feeds.checks) + 1 = Len(feeds.discovered)
             THEN "feed_result" ELSE "feeds"
    /\ UNCHANGED <<args, site, discovery, homepage, feed, articles, issues,
                   prev_issues, calls, files, exit_code>>

\* _audit_feed, lines 270-289: one pass of the loop over discovered_feeds.
FetchFeed ==
    /\ pc = "feeds"
    /\ \E outcome \in FetchOutcomes(FeedDocs) \cup {Response(404, MalformedFeed)} :
          LET feed_url == feeds.discovered[Len(feeds.checks) + 1]
              checked == CheckFeed(feed_url, outcome, feeds.best)
          IN  /\ feeds' = [feeds EXCEPT !.checks = Append(@, checked.entry),
                                        !.best = checked.best]
              /\ requests' = Append(requests, feed_url)
    /\ pc' = IF Len(feeds.checks) + 1 = Len(feeds.discovered)
             THEN "feed_result" ELSE "feeds"
    /\ UNCHANGED <<args, site, discovery, homepage, feed, articles, issues,
                   prev_issues, calls, files, exit_code>>

\* _audit_feed, lines 291-334.
AuditFeedResult ==
    /\ pc = "feed_result"
    /\ feed' = Some(FeedResult(feeds.discovered, feeds.checks, feeds.best,
                               homepage.html, homepage.err))
    /\ pc' = "sample"
    /\ UNCHANGED <<args, site, requests, discovery, homepage, feeds, articles,
                   issues, prev_issues, calls, files, exit_code>>

\* _audit_articles, line 675.
ExtractArticleUrls ==
    /\ pc = "sample"
    /\ LET urls == _extract_article_urls(Get(feed), Get(site), args.sample_size)
       IN  /\ articles' = [articles EXCEPT !.sample_urls = urls]
           /\ pc' = IF urls = <<>> THEN "summary" ELSE "articles"
    /\ UNCHANGED <<args, site, requests, discovery, homepage, feeds, feed,
                   issues, prev_issues, calls, files, exit_code>>

\* The sampled URLs taken from the end of the list.
NextUrl_from_the_end == articles.sample_urls[Len(articles.sample_urls) - Len(articles.pages)]

\* _audit_articles, line 676: _audit_article on the next sampled URL.
NextUrl == articles.sample_urls[Len(articles.pages) + 1]

AnalyseNext(outcome) ==
    /\ articles' = [articles EXCEPT !.pages = Append(@, _audit_article(NextUrl, outcome))]
    /\ requests' = Append(requests, NextUrl)
    /\ pc' = IF Len(articles.pages) + 1 = Len(articles.sample_urls)
             THEN "summary" ELSE "articles"
    /\ UNCHANGED <<args, site, discovery, homepage, feeds, feed, issues,
                   prev_issues, calls, files, exit_code>>

CompletePage == Page(Some(Href(<<"/", "a1">>)), "", TRUE, 1000, 0)

AuditArticle ==
    /\ pc = "articles"
    /\ \E outcome \in FetchOutcomes({CompletePage}) \cup {Response(404, ErrorPage)} :
          AnalyseNext(outcome)

\* _audit_articles, line 680, and audit_site's return.
SummarizeArticles ==
    /\ pc = "summary"
    /\ articles' = [articles EXCEPT !.summary = Some(_summarize_articles(articles.pages))]
    /\ pc' = "handler"
    /\ UNCHANGED <<args, site, requests, discovery, homepage, feeds, feed,
                   issues, prev_issues, calls, files, exit_code>>

\* The dict audit_site returns (line 694 drops homepage_html from the feed).
Audit ==
    [site |-> Get(site),
     discovery |-> [robots |-> Get(discovery.robots), sitemaps |-> discovery.sitemaps],
     feed |-> [k \in DOMAIN Get(feed) \ {"homepage_html"} |-> Get(feed)[k]],
     articles |-> [sample_urls |-> articles.sample_urls,
                   pages |-> articles.pages,
                   summary |-> Get(articles.summary)]]

\* cli._run_audit and cli._run_report after audit_site returned, and main's
\* return: a write that raises OSError ends the run with 1.
RunHandler ==
    /\ pc = "handler"
    /\ IF args.command = "audit"
       THEN /\ UNCHANGED <<issues, prev_issues, calls>>
            /\ files' = files
            /\ exit_code' = Some(0)
       ELSE /\ issues' = build_report_payload(Audit).issues
            /\ prev_issues' = issues
            /\ calls' = calls + 1
            /\ \E written \in {{}, {"markdown"}, {"markdown", "json"}} :
                  /\ files' = written
                  /\ exit_code' = IF written = {"markdown", "json"}
                                  THEN Some(0) ELSE Some(1)
    /\ pc' = "exit"
    /\ UNCHANGED <<args, site, requests, discovery, homepage, feeds, feed, articles>>

Next ==
    \/ Main
    \/ FetchRobots
    \/ FetchSitemap
    \/ DiscoverFeedUrls
    \/ FetchFeed
    \/ AuditFeedResult
    \/ ExtractArticleUrls
    \/ AuditArticle
    \/ SummarizeArticles
    \/ RunHandler

Spec == Init /\ [][Next]_vars

(***************************************************************************)
(* The risk verdict on its own: _audit_feed from line 291, entered with    *)
(* every selected feed of up to MaxFeedItems items.  The verdict reads the *)
(* items only through sums, so the items are listed by kind.               *)
(***************************************************************************)
MaxFeedItems == 10

ItemKinds ==
    << Node("item", <<"/", "a1">>, TRUE, 300, FALSE),
       Node("item", <<"/", "a1">>, TRUE, 300, TRUE),
       Node("item", <<"/", "a1">>, TRUE, 700, FALSE),
       Node("item", <<"/", "a1">>, TRUE, 700, TRUE),
       Node("item", <<"/", "a1">>, FALSE, 300, FALSE),
       Node("item", <<"/", "a1">>, FALSE, 300, TRUE),
       Node("item", <<"/", "a1">>, FALSE, 700, FALSE),
       Node("item", <<"/", "a1">>, FALSE, 700, TRUE) >>

KindOfItem(item) == CHOOSE k \in DOMAIN ItemKinds : FeedItem(ItemKinds[k]) = item

TheSite == normalize_site(ValidSite).value
SeedFeedUrl == urljoin(TheSite, Href(<<"feed", "/">>))

\* The state of a run that reached `at` without having fetched anything.
RunAt(at, commandLines) ==
    /\ pc = at
    /\ args \in commandLines
    /\ site = Some(TheSite)
    /\ requests = <<>>
    /\ issues = <<>>
    /\ prev_issues = <<>>
    /\ calls = 0
    /\ files = {}
    /\ exit_code = None

InitRisk ==
    /\ RunAt("feeds", CommandLines({ValidSite}, {MaxSampleSize}))
    /\ args.command = "report"
    /\ discovery = NoDiscovery
    /\ homepage = [html |-> None, err |-> None]
    /\ feeds = [discovered |-> <<SeedFeedUrl>>, checks |-> <<>>, best |-> None]
    /\ feed = None
    /\ articles = NoArticles

\* The feed parser hands over one more item of the feed being fetched.
ParseItem ==
    /\ pc = "feeds"
    /\ \E k \in DOMAIN ItemKinds :
          LET items == IF feeds.best = None THEN <<>> ELSE Get(feeds.best).items
          IN  /\ Len(items) < MaxFeedItems
              /\ items # <<>> => KindOfItem(items[Len(items)]) <= k
              /\ feeds' = [feeds EXCEPT !.best =
                              Some([url |-> SeedFeedUrl, status |-> 200,
                                    items |-> Append(items, FeedItem(ItemKinds[k]))])]
    /\ UNCHANGED <<pc, args, site, requests, discovery, homepage, feed, articles,
                   issues, prev_issues, calls, files, exit_code>>

\* Line 289: the loop over discovered_feeds ends.
EndFeedLoop ==
    /\ pc = "feeds"
    /\ pc' = "feed_result"
    /\ feeds' = [feeds EXCEPT !.checks =
                    <<[url |-> SeedFeedUrl, status |-> Some(200), error |-> None,
                       items |-> IF feeds.best = None THEN <<>> ELSE Get(feeds.best).items,
                       parse_error |-> None]>>]
    /\ UNCHANGED <<args, site, requests, discovery, homepage, feed, articles,
                   issues, prev_issues, calls, files, exit_code>>

NextRisk == ParseItem \/ EndFeedLoop \/ AuditFeedResult

SpecRisk == InitRisk /\ [][NextRisk]_vars

(***************************************************************************)
(* The sampler on its own: _extract_article_urls on every feed of up to    *)
(* MaxLinks items, every homepage of up to MaxAnchors anchors and every    *)
(* sample size from -1 (argparse's type=int takes any integer).            *)
(***************************************************************************)
MaxLinks == 2
MaxAnchors == 2

OffSite == Url(<<"evil", "com">>, <<"/", "a1">>)
SubDomain == Url(<<"m", "EX", "com">>, <<"/", "a2">>)

FeedLinks == {EmptyHref, Href(<<"/", "a1">>), Href(<<"/", "a2">>), OffSite, SubDomain}

AnchorHrefs ==
    {Href(<<"/", "a1">>), Href(<<"/", "a3">>), Href(<<"/", "Tag", "/", "news">>),
     Href(<<"/">>), OffSite}

SeqsUpTo(S, n) == UNION {[1..k -> S] : k \in 0..n}

ItemWithLink(href) ==
    [link |-> href, has_image |-> TRUE, content_length |-> 800, looks_excerpt |-> FALSE]

InitSampler ==
    /\ RunAt("sample", CommandLines({ValidSite}, -1..MaxSampleSize))
    /\ args.command = "report"
    /\ discovery = NoDiscovery
    /\ \E links \in SeqsUpTo(FeedLinks, MaxLinks),
          html \in {None} \cup {Some([links |-> <<>>, anchors |-> a]) :
                                   a \in SeqsUpTo(AnchorHrefs, MaxAnchors)} :
          LET items == [i \in DOMAIN links |-> ItemWithLink(links[i])]
              best == IF items = <<>> THEN None
                      ELSE Some([url |-> SeedFeedUrl, status |-> 200, items |-> items])
              checks == <<[url |-> SeedFeedUrl, status |-> Some(200), error |-> None,
                           items |-> items, parse_error |-> None]>>
          IN  /\ homepage = [html |-> html, err |-> None]
              /\ feeds = [discovered |-> <<SeedFeedUrl>>, checks |-> checks, best |-> best]
              /\ feed = Some(FeedResult(<<SeedFeedUrl>>, checks, best, html, None))
    /\ articles = NoArticles

NextSampler == ExtractArticleUrls

SpecSampler == InitSampler /\ [][NextSampler]_vars

(***************************************************************************)
(* The aggregator and the rule engine on their own: _audit_articles from   *)
(* line 676 on up to MaxPages sampled URLs, then derive_issues, called up  *)
(* to MaxCalls times on the audit.  The aggregate reads the pages only     *)
(* through sums, so the pages are listed by kind.                          *)
(***************************************************************************)
MaxPages == 5
MaxCalls == 2

PageNames == <<"a1", "a2", "a3", "a4", "a5", "a6", "a7", "a8">>
ArticleUrl(i) == Url(TheSite.host, <<"/", PageNames[i]>>)

\* The fetch outcomes of an article URL, one per kind of page.
PageKinds(url) ==
    LET self == Some(Href(url.path))
        good == Page(self, "index", TRUE, 1000, 0)
    IN  << TransportError,
           Response(404, ErrorPage),
           Response(200, good),
           Response(200, [good EXCEPT !.canonical = None]),
           Response(200, [good EXCEPT !.canonical = Some(Href(<<"/", "other">>)),
                                      !.robots = "noindex"]),
           Response(200, [good EXCEPT !.og_image = FALSE, !.og_height = Some(0),
                                      !.jsonld = <<Some([CompleteArticle EXCEPT
                                                           !.fields.headline = None])>>]),
           Response(200, [good EXCEPT !.jsonld = <<>>,
                                      !.date_visible = FALSE]),
           Response(200, [good EXCEPT !.size = 9000000, !.render_blocking_scripts = 8,
                                      !.og_width = None]) >>

KindOfPage(page) ==
    CHOOSE k \in DOMAIN PageKinds(page.url) :
        _audit_article(page.url, PageKinds(page.url)[k]) = page

AllMissing == [i \in DOMAIN SITEMAP_PATHS |-> Response(404, <<>>)]

Discoveries ==
    {[robots |-> Some(RobotsData(TheSite, o)),
      sitemaps |-> [i \in DOMAIN SITEMAP_PATHS |->
                       SitemapEntry(TheSite, SITEMAP_PATHS[i], probes[i])]] :
        o \in {TransportError, Response(200, BlockingRobots)},
        probes \in {AllMissing, [AllMissing EXCEPT ![3] = Response(200, <<>>)]}}

SelectedFeeds ==
    {None} \cup
    {Some([url |-> SeedFeedUrl, status |-> 200, items |-> <<FeedItem(ItemKinds[k])>>]) :
        k \in {3, 6}}

InitIssues ==
    /\ RunAt("articles", CommandLines({ValidSite}, {MaxPages}))
    /\ args.command = "report"
    /\ discovery \in Discoveries
    /\ homepage = [html |-> None, err |-> Some(TransportError.msg)]
    /\ \E best \in SelectedFeeds :
          LET checks == <<[url |-> SeedFeedUrl, status |-> Some(200), error |-> None,
                           items |-> IF best = None THEN <<>> ELSE Get(best).items,
                           parse_error |-> None]>>
          IN  /\ feeds = [discovered |-> <<SeedFeedUrl>>, checks |-> checks, best |-> best]
              /\ feed = Some(FeedResult(<<SeedFeedUrl>>, checks, best, None,
                                        Some(TransportError.msg)))
    /\ articles = [NoArticles EXCEPT !.sample_urls = [i \in 1..MaxPages |-> ArticleUrl(i)]]

\* _audit_article on the next sampled URL, the pages coming kind by kind.
AuditArticleOfKind ==
    /\ pc = "articles"
    /\ \E k \in DOMAIN PageKinds(NextUrl) :
          /\ articles.pages # <<>> => KindOfPage(articles.pages[Len(articles.pages)]) <= k
          /\ AnalyseNext(PageKinds(NextUrl)[k])

\* reporting.derive_issues, called on the audit.
DeriveIssues ==
    /\ pc = "handler"
    /\ calls < MaxCalls
    /\ issues' = derive_issues(Audit)
    /\ prev_issues' = issues
    /\ calls' = calls + 1
    /\ UNCHANGED <<pc, args, site, requests, discovery, homepage, feeds, feed,
                   articles, files, exit_code>>

NextIssues == AuditArticleOfKind \/ SummarizeArticles \/ DeriveIssues

SpecIssues == InitIssues /\ [][NextIssues]_vars

(***************************************************************************)
(* The robots analyzer on its own: _audit_discovery's robots.txt fetch     *)
(* answered with every robots.txt of up to MaxRobotsLines lines.           *)
(***************************************************************************)
MaxRobotsLines == 3

RobotsLines ==
    {[key |-> "Disallow", value |-> RuleOrder[i]] : i \in DOMAIN RuleOrder}
    \cup {[key |-> "disallow", value |-> <<" ", "/", "feed", " ">>],
          [key |-> "Allow", value |-> <<"/">>],
          [key |-> "Sitemap", value |-> <<"/", "sitemap.xml">>]}

InitRobots ==
    /\ RunAt("robots", CommandLines({ValidSite}, {MaxSampleSize}))
    /\ args.command = "report"
    /\ discovery = NoDiscovery
    /\ homepage = [html |-> None, err |-> None]
    /\ feeds = NoFeeds
    /\ feed = None
    /\ articles = NoArticles

\* _audit_discovery, lines 108-121, the fetch answered with a robots.txt.
FetchRobotsText ==
    /\ pc = "robots"
    /\ \E text \in SeqsUpTo(RobotsLines, MaxRobotsLines) :
          LET data == RobotsData(Get(site), Response(200, text))
          IN  /\ discovery' = [discovery EXCEPT !.robots = Some(data)]
              /\ requests' = Append(requests, data.url)
    /\ pc' = "sitemaps"
    /\ UNCHANGED <<args, site, homepage, feeds, feed, articles, issues,
                   prev_issues, calls, files, exit_code>>

NextRobots == FetchRobotsText

SpecRobots == InitRobots /\ [][NextRobots]_vars

(***************************************************************************)
(* The canonical check on its own: _audit_article on one sampled URL whose *)
(* page names one of the canonical hrefs below.                            *)
(***************************************************************************)
CanonicalPageUrls ==
    {Url(<<"ex", "com">>, <<"/", "a1">>),
     Url(<<"EX", "com">>, <<"/", "a1", "/">>),
     Url(<<"ex", "com">>, <<"/", "a1", "/", "/">>),
     Url(<<"ex", "com">>, <<"/">>),
     Url(<<"ex", "com">>, <<>>),
     Url(<<"m", "ex", "com">>, <<"/", "a2">>)}

CanonicalHrefs ==
    {Href(<<"/", "a1">>), Href(<<"/", "a1", "/">>), Href(<<"/", "a1", "/", "/">>),
     Href(<<"/", "a2">>), Href(<<"/">>),
     Url(<<"EX", "com">>, <<"/", "a1", "/">>),
     Url(<<"ex", "com">>, <<>>),
     Url(<<"evil", "com">>, <<"/", "a1">>),
     Url(<<"m", "ex", "com">>, <<"/", "a2">>),
     Href(<<"file:", "/", "a1">>),
     Href(<<"file:", "/", "a2", "/">>),
     Href(<<"file:">>)}

InitCanonical ==
    /\ RunAt("articles", CommandLines({ValidSite}, {MaxSampleSize}))
    /\ args.command = "report"
    /\ discovery = NoDiscovery
    /\ homepage = [html |-> None, err |-> None]
    /\ feeds = NoFeeds
    /\ feed = None
    /\ \E url \in CanonicalPageUrls :
          articles = [NoArticles EXCEPT !.sample_urls = <<url>>]

\* _audit_article on the sampled URL, the page fetched with a canonical link.
AuditArticleWithCanonical ==
    /\ pc = "articles"
    /\ \E href \in CanonicalHrefs :
          AnalyseNext(Response(200, Page(Some(href), "index", TRUE, 1000, 0)))

NextCanonical == AuditArticleWithCanonical \/ SummarizeArticles

SpecCanonical == InitCanonical /\ [][NextCanonical]_vars

(***************************************************************************)
(* The feed loop on its own: _audit_feed from line 270 on up to            *)
(* MaxCandidates feed candidates (the seed /feed/ and candidates the       *)
(* homepage links to), each URL answered as FeedAt says.                   *)
(***************************************************************************)
MaxCandidates == 3

NoChannelFeed == [wellformed |-> TRUE, root |-> "rss", channel |-> FALSE, nodes |-> <<>>]

HtmlPage ==
    [wellformed |-> TRUE, root |-> "html", channel |-> FALSE,
     nodes |-> << Node("item", <<"/", "a1">>, TRUE, 800, FALSE) >>]

\* An RSS feed: an item whose description is followed by an empty
\* media:content, an entry (no item), an item with content:encoded before its
\* description, an item without any content child.
MixedRssFeed ==
    [wellformed |-> TRUE, root |-> "RSS", channel |-> TRUE,
     nodes |-> << [tag |-> "item", link |-> Href(<<"/", "a1">>),
                   children |-> << TextChild("description", FALSE, 800, FALSE),
                                   MediaChild("media:content", TRUE) >>],
                  Node("entry", <<"/", "a9">>, TRUE, 800, FALSE),
                  [tag |-> "item", link |-> Href(<<"/", "a2">>),
                   children |-> << TextChild("content:encoded", TRUE, 900, FALSE),
                                   TextChild("description", FALSE, 100, TRUE) >>],
                  [tag |-> "item", link |-> Href(<<"/", "a3">>),
                   children |-> << MediaChild("enclosure", FALSE) >>] >>]

\* An Atom feed: an entry with a summary before its content, an item (no
\* entry), an entry with one content child.
MixedAtomFeed ==
    [wellformed |-> TRUE, root |-> "atom:feed", channel |-> FALSE,
     nodes |-> << [tag |-> "atom:entry", link |-> Href(<<"/", "a4">>),
                   children |-> << TextChild("summary", FALSE, 200, TRUE),
                                   TextChild("content", TRUE, 1200, FALSE) >>],
                  Node("item", <<"/", "a9">>, TRUE, 800, FALSE),
                  Node("entry", <<"/", "a5">>, FALSE, 700, FALSE) >>]

\* What the site answers at each feed URL.
FeedAt(url) ==
    CASE url.path[2] = "atom" -> Response(200, MixedAtomFeed)
      [] url.path[2] = "broken" -> Response(200, MalformedFeed)
      [] url.path[2] = "empty" -> Response(200, EmptyFeed)
      [] url.path[2] = "feed" -> Response(200, NoChannelFeed)
      [] url.path[2] = "gone" -> Response(404, MalformedFeed)
      [] url.path[2] = "page" -> Response(200, HtmlPage)
      [] url.path[2] = "rss" -> Response(200, MixedRssFeed)
      [] url.path[2] = "timeout" -> TransportError

\* The homepage that links to the feed URLs of `linked`.
HomepageLinking(linked) ==
    [links |-> [i \in DOMAIN linked |->
                   [rel |-> <<"alternate">>, type |-> "application/rss+xml",
                    href |-> Href(linked[i].path)]],
     anchors |-> <<>>]

InitFeeds ==
    /\ RunAt("feeds", CommandLines({ValidSite}, {MaxSampleSize}))
    /\ args.command = "report"
    /\ discovery = NoDiscovery
    /\ \E linked \in SUBSET (Range(FeedUrlOrder(TheSite)) \ {SeedFeedUrl}) :
          LET found == _discover_feed_urls(
                           TheSite,
                           Response(200, HomepageLinking(
                                             SortedBy(FeedUrlOrder(TheSite), linked))))
          IN  /\ Cardinality(linked) < MaxCandidates
              /\ homepage = [html |-> found.html, err |-> found.err]
              /\ feeds = [discovered |-> found.urls, checks |-> <<>>, best |-> None]
    /\ feed = None
    /\ articles = NoArticles

\* _audit_feed, lines 270-289: one pass of the loop, the fetch answered by FeedAt.
FetchFeedAt ==
    /\ pc = "feeds"
    /\ LET feed_url == feeds.discovered[Len(feeds.checks) + 1]
           checked == CheckFeed(feed_url, FeedAt(feed_url), feeds.best)
       IN  /\ feeds' = [feeds EXCEPT !.checks = Append(@, checked.entry),
                                     !.best = checked.best]
           /\ requests' = Append(requests, feed_url)
    /\ pc' = IF Len(feeds.checks) + 1 = Len(feeds.discovered)
             THEN "feed_result" ELSE "feeds"
    /\ UNCHANGED <<args, site, discovery, homepage, feed, articles, issues,
                   prev_issues, calls, files, exit_code>>

NextFeeds == FetchFeedAt \/ AuditFeedResult

SpecFeeds == InitFeeds /\ [][NextFeeds]_vars

(***************************************************************************)
(* normalize_site on every input of up to MaxSiteTokens tokens, followed   *)
(* by _audit_discovery, which resolves robots.txt and the sitemap paths     *)
(* against its value.                                                      *)
(***************************************************************************)
MaxSiteTokens == 3

SiteTokens == {" ", "http://", "https://", "ex.com", "/", "a", "?q", "#f"}

InitSite ==
    /\ pc = "main"
    /\ args \in CommandLines(SeqsUpTo(SiteTokens, MaxSiteTokens), {MaxSampleSize})
    /\ args.command = "audit"
    /\ site = None
    /\ requests = <<>>
    /\ discovery = NoDiscovery
    /\ homepage = [html |-> None, err |-> None]
    /\ feeds = NoFeeds
    /\ feed = None
    /\ articles = NoArticles
    /\ issues = <<>>
    /\ prev_issues = <<>>
    /\ calls = 0
    /\ files = {}
    /\ exit_code = None

NextSite == Main \/ FetchRobots \/ FetchSitemap

SpecSite == InitSite /\ [][NextSite]_vars

(***************************************************************************)
(* _summarize_articles and derive_issues on up to MaxSizedPages sampled    *)
(* pages whose response sizes lie around the 1,500,000 byte threshold.     *)
(***************************************************************************)
MaxSizedPages == 3

PageSizes == {1499999, 1500000, 1500001, 1500002}

InitSizes ==
    /\ RunAt("articles", CommandLines({ValidSite}, {MaxSizedPages}))
    /\ args.command = "report"
    /\ discovery = [robots |-> Some(RobotsData(TheSite, TransportError)),
                    sitemaps |-> [i \in DOMAIN SITEMAP_PATHS |->
                                     SitemapEntry(TheSite, SITEMAP_PATHS[i],
                                                  Response(200, <<>>))]]
    /\ homepage = [html |-> None, err |-> Some(TransportError.msg)]
    /\ LET best == Some([url |-> SeedFeedUrl, status |-> 200,
                         items |-> <<FeedItem(ItemKinds[3])>>])
           checks == <<[url |-> SeedFeedUrl, status |-> Some(200), error |-> None,
                        items |-> Get(best).items, parse_error |-> None]>>
       IN  /\ feeds = [discovered |-> <<SeedFeedUrl>>, checks |-> checks, best |-> best]
           /\ feed = Some(FeedResult(<<SeedFeedUrl>>, checks, best, None,
                                     Some(TransportError.msg)))
    /\ \E n \in 1..MaxSizedPages :
          articles = [NoArticles EXCEPT !.sample_urls = [i \in 1..n |-> ArticleUrl(i)]]

\* _audit_article on the next sampled URL: a failed fetch, or a complete page
\* of one of the sizes.
AuditArticleOfSize ==
    /\ pc = "articles"
    /\ \E outcome \in {TransportError} \cup
                      {Response(200, Page(Some(Href(NextUrl.path)), "index", TRUE, size, 0)) :
                          size \in PageSizes} :
          AnalyseNext(outcome)

NextSizes == AuditArticleOfSize \/ SummarizeArticles \/ DeriveIssues

SpecSizes == InitSizes /\ [][NextSizes]_vars

(***************************************************************************)
(* _audit_article on two pages with up to MaxScripts ld+json scripts       *)
(* each, then _summarize_articles.                                         *)
(***************************************************************************)
MaxScripts == 2

JsonObject(type, fields, graph_is_list, children) ==
    [kind |-> "object", type |-> type, fields |-> fields,
     graph_is_list |-> graph_is_list, children |-> children]
JsonList(items) ==
    [kind |-> "list", type |-> AbsentType, fields |-> NoFields,
     graph_is_list |-> FALSE, children |-> items]
JsonScalar ==
    [kind |-> "scalar", type |-> AbsentType, fields |-> NoFields,
     graph_is_list |-> FALSE, children |-> <<>>]

TypeStr(name) == [kind |-> "str", names |-> <<name>>]
NameStr == [kind |-> "str", name |-> None, items |-> <<>>]
UnnamedObject == [kind |-> "object", name |-> Some(""), items |-> <<>>]
NameList(items) == [kind |-> "list", name |-> None, items |-> items]

\* An Article with a headline, an author given as a string and a publisher
\* whose name is empty.
HeadlineOnly ==
    JsonObject(TypeStr("Article"),
               [NoFields EXCEPT !.headline = Some("x"), !.image = Some(""),
                                !.author = NameStr, !.publisher = UnnamedObject],
               FALSE, <<>>)

\* A BlogPosting among its types, dated and illustrated, its authors a list
\* with a named object, its publishers a list without one.
DatedPosting ==
    JsonObject([kind |-> "list", names |-> <<"Thing", "BlogPosting">>],
               [NoFields EXCEPT !.datePublished = Some("x"), !.dateModified = Some("x"),
                                !.image = Some("x"),
                                !.author = NameList(<<NameStr, NamedObject>>),
                                !.publisher = NameList(<<UnnamedObject, NameStr>>)],
               FALSE, <<>>)

\* A Person with every field: not an article.
FullPerson == [CompleteArticle EXCEPT !.type = TypeStr("Person")]

ScriptValues ==
    { None,
      Some(CompleteArticle),
      Some(HeadlineOnly),
      Some(FullPerson),
      Some(JsonObject(AbsentType, NoFields, FALSE, <<>>)),
      Some(JsonList(<<FullPerson, DatedPosting>>)),
      Some(JsonObject(AbsentType, NoFields, TRUE,
                      <<HeadlineOnly, JsonList(<<DatedPosting>>), JsonScalar>>)),
      Some(JsonObject(AbsentType, NoFields, FALSE, <<CompleteArticle>>)) }

InitJsonld ==
    /\ RunAt("articles", CommandLines({ValidSite}, {MaxSampleSize}))
    /\ args.command = "report"
    /\ discovery = NoDiscovery
    /\ homepage = [html |-> None, err |-> None]
    /\ feeds = NoFeeds
    /\ feed = None
    /\ articles = [NoArticles EXCEPT !.sample_urls = <<ArticleUrl(1), ArticleUrl(2)>>]

\* _audit_article on the next sampled URL, the page fetched with its scripts.
AuditArticleWithJsonld ==
    /\ pc = "articles"
    /\ \E scripts \in SeqsUpTo(ScriptValues, MaxScripts) :
          AnalyseNext(Response(200, [CompletePage EXCEPT !.jsonld = scripts]))

NextJsonld == AuditArticleWithJsonld \/ SummarizeArticles

SpecJsonld == InitJsonld /\ [][NextJsonld]_vars

(***************************************************************************)
(* The claims                                                              *)
(***************************************************************************)
Titles(list) == {list[i].title : i \in DOMAIN list}
CountTier(list, tier) == Cardinality({i \in DOMAIN list : list[i].priority = tier})

RobotsIssue == "robots.txt may block news discovery paths"
SitemapIssue == "No sitemap endpoint was reachable"
FeedEmptyIssue == "No valid RSS feed items found"
FeedRiskIssue == "Feed has elevated NewsBreak ingestion risk"

\* A report run that ended with the robots.txt fetch failed, no sitemap path
\* reachable, no feed entry and no sampled article.
BareSiteReported ==
    /\ pc = "exit"
    /\ calls = 1
    /\ Get(discovery.robots).error # None
    /\ \A i \in DOMAIN discovery.sitemaps : ~discovery.sitemaps[i].exists
    /\ Get(feed).item_count = 0
    /\ articles.sample_urls = <<>>

\* C1 as stated: on such a run derive_issues returns exactly three P0 issues,
\* none of them the blocking-robots-rule issue, and no P1 and no P2 issue.
C1_ThreeTopTierOnly ==
    BareSiteReported =>
        /\ CountTier(issues, "P0") = 3
        /\ RobotsIssue \notin Titles(issues)
        /\ CountTier(issues, "P1") = 0
        /\ CountTier(issues, "P2") = 0

\* C1 amended: on such a run derive_issues returns exactly three issues: the
\* two P0 issues "no sitemap reachable" and "no feed items" (not the
\* blocking-robots-rule issue), then the P1 feed-risk issue, and no P2 issue.
C1_TwoTopTierAndFeedRisk ==
    BareSiteReported =>
        issues = << Issue("P0", SitemapIssue),
                    Issue("P0", FeedEmptyIssue),
                    Issue("P1", FeedRiskIssue) >>

C1_Witness == BareSiteReported /\ Len(issues) = 3

\* A checked feed that was fetched, parsed without error and has an entry.
Usable(check) ==
    /\ check.error = None
    /\ check.status # None
    /\ Get(check.status) < 400
    /\ check.parse_error = None
    /\ check.items # <<>>

\* C2: once _audit_feed returned, the candidates were checked in the locator's
\* sorted order and the selected feed is the first usable one of them (its
\* items the entry list); with no usable candidate selected_feed_url is null
\* and the entry list is empty.  A candidate without entries is never selected.
C2_FirstUsableCandidateSelected ==
    feed # None =>
        LET f == Get(feed)
            checks == f.checked_feeds
            usable == {i \in DOMAIN checks : Usable(checks[i])}
        IN  /\ f.discovered_feed_urls
                 = SortedBy(FeedUrlOrder(Get(site)), Range(f.discovered_feed_urls))
            /\ Len(checks) = Len(f.discovered_feed_urls)
            /\ \A i \in DOMAIN checks : checks[i].url = f.discovered_feed_urls[i]
            /\ IF usable = {}
               THEN f.selected_feed_url = None /\ f.items = <<>>
               ELSE LET first == CHOOSE i \in usable : \A j \in usable : i <= j
                    IN  /\ f.selected_feed_url = Some(checks[first].url)
                        /\ f.items = checks[first].items
                        /\ f.items # <<>>

\* Two candidates, the first parsed to no entry, the second selected.
C2_Witness ==
    /\ feed # None
    /\ Len(Get(feed).checked_feeds) = 2
    /\ Get(feed).checked_feeds[1].parse_error = None
    /\ Get(feed).checked_feeds[1].status = Some(200)
    /\ Get(feed).checked_feeds[1].items = <<>>
    /\ Get(feed).selected_feed_url = Some(Get(feed).checked_feeds[2].url)

\* C3: over the selected feed's entries, risk is true iff total = 0 or
\* withImage/total < 0.7 or excerptLike/total > 0.5 or sum(length)/total < 500;
\* the image reason is present iff total > 0 and the image ratio is below 0.7,
\* the excerpt reason iff total > 0 and (excerpt ratio above 0.5 or average
\* length below 500); the boundary values 0.7, 0.5 and 500 do not trigger.
C3_RiskVerdict ==
    feed # None =>
        LET f == Get(feed)
            entries == f.items
            total == Len(entries)
            withImage == Cardinality({i \in DOMAIN entries : entries[i].has_image})
            excerptLike == Cardinality({i \in DOMAIN entries : entries[i].looks_excerpt})
            sumLength == SumSeq([i \in DOMAIN entries |-> entries[i].content_length])
            imageCond == total > 0 /\ 10 * withImage < 7 * total
            excerptCond == total > 0 /\ (2 * excerptLike > total \/ sumLength < 500 * total)
            reasons == Range(f.newsbreak_risk_reasons)
        IN  /\ f.newsbreak_risk <=> (total = 0 \/ imageCond \/ excerptCond)
            /\ ImageReason \in reasons <=> imageCond
            /\ ExcerptReason \in reasons <=> excerptCond
            /\ NoItemsReason \in reasons <=> total = 0
            /\ (10 * withImage = 7 * total /\ 2 * excerptLike = total
                    /\ sumLength = 500 * total /\ total > 0) => ~f.newsbreak_risk

\* 10 entries, 5 with images, 6 excerpt-like, average length 300: both reasons.
C3_Witness ==
    /\ feed # None
    /\ Get(feed).item_count = 10
    /\ Get(feed).items_with_image = 5
    /\ Get(feed).excerpt_like_items = 6
    /\ Get(feed).sum_content_length = 3000
    /\ Get(feed).newsbreak_risk_reasons = <<ImageReason, ExcerptReason>>

\* The sample returned by _extract_article_urls, once it has returned.
Sampled == pc # "sample"

Max(a, b) == IF a >= b THEN a ELSE b

\* C4: for every sample size N, zero and negative values included,
\* _extract_article_urls returns at most N URLs (none when N is not positive),
\* pairwise distinct, each on the site's host or on a subdomain of it.
C4_AtMostNDistinctSameSite ==
    Sampled =>
        LET urls == articles.sample_urls
        IN  /\ Len(urls) <= Max(args.sample_size, 0)
            /\ \A i, j \in DOMAIN urls : i # j => urls[i] # urls[j]
            /\ \A i \in DOMAIN urls : _same_domain(urls[i], Get(site))

\* What holds of the code instead: the size is tested after the append, so a
\* sample of one URL is returned for N <= 0.
C4_AtMostNOrOne ==
    Sampled =>
        LET urls == articles.sample_urls
        IN  /\ Len(urls) <= Max(args.sample_size, 1)
            /\ \A i, j \in DOMAIN urls : i # j => urls[i] # urls[j]
            /\ \A i \in DOMAIN urls : _same_domain(urls[i], Get(site))

C4_Witness ==
    /\ Sampled
    /\ args.sample_size = 0
    /\ Len(articles.sample_urls) = 1

RECURSIVE FirstOccurrences(_)
FirstOccurrences(s) ==
    IF s = <<>> THEN <<>>
    ELSE <<Head(s)>> \o SelectSeq(FirstOccurrences(Tail(s)), LAMBDA x : x # Head(s))

IsPrefix(p, s) == Len(p) <= Len(s) /\ SubSeq(s, 1, Len(p)) = p

\* The distinct same-site URLs of the selected feed's entry links, in feed order.
EligibleFeedUrls ==
    LET linked == SelectSeq(Get(feed).items, LAMBDA item : item.link # EmptyHref)
        joined == [i \in DOMAIN linked |-> urljoin(Get(site), linked[i].link)]
    IN  FirstOccurrences(SelectSeq(joined, LAMBDA u : _same_domain(u, Get(site))))

\* The distinct same-site URLs of the homepage's anchors, in document order,
\* whose path is neither empty nor the root and has no excluded token.
EligibleAnchorUrls ==
    LET html == Get(feed).homepage_html
        hrefs == IF html = None THEN <<>>
                 ELSE SelectSeq(Get(html).anchors, LAMBDA h : h # EmptyHref)
        joined == [i \in DOMAIN hrefs |-> urljoin(Get(site), hrefs[i])]
    IN  FirstOccurrences(SelectSeq(joined, LAMBDA u :
            /\ _same_domain(u, Get(site))
            /\ LowerSeq(u.path) \notin {<<>>, <<"/">>}
            /\ ~HasExcludedToken(LowerSeq(u.path))))

\* C5: the returned sequence is pass-1 URLs (entry links of the selected feed,
\* in feed order) followed by pass-2 URLs (homepage anchors, in document order,
\* with a non-empty, non-root path without /tag/, /category/, /author/, /wp-),
\* and pass 2 contributes a URL only if pass 1 collected fewer than N.
C5_FeedLinksThenAnchors ==
    Sampled =>
        LET urls == articles.sample_urls
        IN  \E k \in 0..Len(urls) :
                LET pass1 == SubSeq(urls, 1, k)
                    pass2 == SubSeq(urls, k + 1, Len(urls))
                IN  /\ IsPrefix(pass1, EligibleFeedUrls)
                    /\ IsPrefix(pass2, SelectSeq(EligibleAnchorUrls,
                                                 LAMBDA u : u \notin Range(pass1)))
                    /\ pass2 # <<>> => k < args.sample_size

C5_Witness ==
    /\ Sampled
    /\ args.sample_size = 0
    /\ EligibleFeedUrls = <<>>
    /\ Len(articles.sample_urls) = 1

\* The run has a normalized site, has made every fetch and built every section.
Audited == site # None /\ pc \in {"handler", "exit"}

\* C6: with a valid site identifier and any outcome of each fetch, the run is
\* at a stage with a next step until its exit (each loop has an item left to
\* fetch) and never ends as an input error; audit_site
\* returns the site, discovery, feed and articles sections with a record for
\* every robots, sitemap, homepage, feed-candidate and article fetch (no stage
\* is skipped), and a fetch that failed is recorded with a null status and its
\* error text.
C6_TransportErrorsNeverAbort ==
    site # None =>
        /\ exit_code # Some(2)
        /\ pc \in {"robots", "sitemaps", "homepage", "feeds", "feed_result",
                   "sample", "articles", "summary", "handler", "exit"}
        /\ pc = "sitemaps" => Len(discovery.sitemaps) < Len(SITEMAP_PATHS)
        /\ pc = "feeds" => Len(feeds.checks) < Len(feeds.discovered)
        /\ pc = "articles" => Len(articles.pages) < Len(articles.sample_urls)
        /\ pc = "exit" => exit_code \in {Some(0), Some(1)}
        /\ Audited =>
              /\ discovery.robots # None
              /\ Len(discovery.sitemaps) = Len(SITEMAP_PATHS)
              /\ feed # None
              /\ Len(Get(feed).checked_feeds) = Len(Get(feed).discovered_feed_urls)
              /\ Len(articles.pages) = Len(articles.sample_urls)
              /\ articles.summary # None
              /\ Len(requests) = 1 + Len(SITEMAP_PATHS) + 1
                                   + Len(Get(feed).discovered_feed_urls)
                                   + Len(articles.sample_urls)
        /\ discovery.robots # None =>
              (Get(discovery.robots).error # None => Get(discovery.robots).status = None)
        /\ \A i \in DOMAIN discovery.sitemaps :
              /\ discovery.sitemaps[i].status = None <=> discovery.sitemaps[i].error # None
              /\ discovery.sitemaps[i].error # None => ~discovery.sitemaps[i].exists
        /\ \A i \in DOMAIN feeds.checks :
              feeds.checks[i].error # None =>
                  feeds.checks[i].status = None /\ feeds.checks[i].items = <<>>
        /\ \A i \in DOMAIN articles.pages :
              articles.pages[i].status = None <=> articles.pages[i].error # None

\* A finished run whose robots, sitemap, homepage and article fetches all failed.
C6_Witness ==
    /\ pc = "exit"
    /\ exit_code = Some(0)
    /\ Get(discovery.robots).error # None
    /\ \A i \in DOMAIN discovery.sitemaps : discovery.sitemaps[i].error # None
    /\ Get(feed).homepage_discovery_error # None
    /\ articles.pages # <<>>
    /\ \A i \in DOMAIN articles.pages : articles.pages[i].error # None

\* The site identifier names no host: it is blank, or what follows the blanks
\* and the optional scheme is empty or starts a path, query or fragment.
NoHostGiven(raw) ==
    LET core == SelectSeq(raw, LAMBDA tok : tok # " ")
        rest == IF core # <<>> /\ Head(core) \in SchemeTokens THEN Tail(core) ELSE core
    IN  rest = <<>> \/ Head(rest) \in {"/", "?q", "#f"}

\* C7: with an empty, blank or hostless site identifier the run ends with exit
\* code 2 before any fetch is issued and before any file is written; no other
\* run ends with 2 (success is 0, an unexpected error is 1).
C7_InputErrorExitsWithTwo ==
    IF NoHostGiven(args.site)
    THEN /\ pc \in {"main", "exit"}
         /\ requests = <<>>
         /\ files = {}
         /\ pc = "exit" => exit_code = Some(2)
    ELSE /\ exit_code \in {None, Some(0), Some(1)}
         /\ pc = "exit" => exit_code # None

C7_Witness ==
    /\ pc = "exit"
    /\ exit_code = Some(2)
    /\ args.site = <<"https://">>

\* derive_issues has returned at least once.
Derived == calls >= 1

TierRank(issue) ==
    CASE issue.priority = "P0" -> 0
      [] issue.priority = "P1" -> 1
      [] issue.priority = "P2" -> 2

\* The place of an issue's rule in the order derive_issues evaluates its rules.
RulePlace(rules, issue) ==
    CHOOSE r \in DOMAIN rules : rules[r].issue.title = issue.title

\* C8: the list derive_issues returns holds one issue for each rule whose
\* condition is true, P0 before P1 before P2, and within one tier in the order
\* in which the rules are evaluated.
C8_TierThenRuleOrder ==
    Derived =>
        LET rules == Rules(Audit)
            tier == [i \in DOMAIN issues |-> TierRank(issues[i])]
            place == [i \in DOMAIN issues |-> RulePlace(rules, issues[i])]
        IN  /\ \A i, j \in DOMAIN issues :
                  i < j => \/ tier[i] < tier[j]
                           \/ tier[i] = tier[j] /\ place[i] < place[j]
            /\ Range(issues) = {rules[r].issue : r \in {q \in DOMAIN rules : rules[q].cond}}

\* A list with several issues in the first two tiers and two in the third.
C8_Witness ==
    /\ Derived
    /\ CountTier(issues, "P0") >= 3
    /\ CountTier(issues, "P1") >= 3
    /\ CountTier(issues, "P2") >= 2

MissingCanonicalIssue == "Canonical tags are missing on many sampled articles"
CanonicalMismatchIssue == "Canonical URL mismatches article URL on sampled pages"
MissingOgImageIssue == "Open Graph images are missing on many sampled articles"
MissingJsonldIssue == "JSON-LD Article/NewsArticle schema is missing on sampled pages"
MissingDateIssue == "Publication date is not clearly visible in article HTML"
MissingDimensionsIssue == "og:image dimensions are often missing"

\* The pages with a non-null status.
FetchedPages == {i \in DOMAIN articles.pages : articles.pages[i].status # None}

\* C10: each of the missing-canonical, canonical-mismatch, missing-og:image,
\* missing-JSON-LD-article and missing-visible-date issues is emitted iff
\* fetched > 0 and 5 * count > fetched, the OG-image-dimensions issue iff
\* fetched > 0 and 2 * count > fetched, where fetched is the number of pages
\* with a non-null status (not the number of sampled URLs).
C10_RatioRules ==
    Derived =>
        LET summary == Get(articles.summary)
            fetched == Cardinality(FetchedPages)
            Fires(count, k) == fetched > 0 /\ k * count > fetched
            Emitted(title) == title \in Titles(issues)
        IN  /\ summary.fetched = fetched
            /\ summary.sampled = Len(articles.sample_urls)
            /\ Emitted(MissingCanonicalIssue) <=> Fires(summary.missing_canonical, 5)
            /\ Emitted(CanonicalMismatchIssue) <=> Fires(summary.canonical_mismatch, 5)
            /\ Emitted(MissingOgImageIssue) <=> Fires(summary.missing_og_fields.og_image, 5)
            /\ Emitted(MissingJsonldIssue) <=> Fires(summary.missing_jsonld_article, 5)
            /\ Emitted(MissingDateIssue) <=> Fires(summary.missing_publication_date_html, 5)
            /\ Emitted(MissingDimensionsIssue)
                   <=> Fires(summary.missing_og_image_dimensions, 2)

\* Five pages fetched, one of them without a canonical link: exactly 20%.
C10_Witness ==
    /\ Derived
    /\ Cardinality(FetchedPages) = 5
    /\ Get(articles.summary).missing_canonical = 1
    /\ MissingCanonicalIssue \notin Titles(issues)

\* The robots.txt has been fetched and parsed.
RobotsRead == discovery.robots # None

\* The value disallows the whole site.
WholeSite(value) == value = <<"/">>

\* The value disallows a query pattern whose parameter is feed or sitemap.
FeedOrSitemapQuery(value) ==
    /\ Len(value) >= 3
    /\ value[1] = "/"
    /\ value[2] = "?"
    /\ value[3] \in {"feed=rss2", "sitemap=1"}

\* The value is one of the discovery paths or a path below one of them.
DiscoveryPath(value) ==
    /\ Len(value) >= 2
    /\ value[1] = "/"
    /\ value[2] \in {"feed", "sitemap", "wp-sitemap", "news-sitemap", "sitemaps"}
    /\ Len(value) >= 3 => value[3] = "/"

StripOneSlash(path) ==
    LET stripped == IF path # <<>> /\ path[Len(path)] = "/"
                    THEN SubSeq(path, 1, Len(path) - 1) ELSE path
    IN  IF stripped = <<>> THEN <<"/">> ELSE stripped

\* The two URLs have the same host, letter case apart, and the same path, one
\* trailing slash apart.
SameHostAndPath(url_a, url_b) ==
    /\ LowerSeq(url_a.host) = LowerSeq(url_b.host)
    /\ StripOneSlash(url_a.path) = StripOneSlash(url_b.path)

\* C12: the canonical URL of a page is consistent with the page's URL iff the
\* two hosts match case-insensitively and the two paths are equal after
\* stripping a single trailing slash (an empty path being /); two URLs with
\* differing hosts are never equivalent.
C12_SameHostAndPath ==
    \A i \in DOMAIN articles.pages :
        LET page == articles.pages[i]
        IN  page.canonical.exists =>
                /\ page.canonical.consistent_with_url
                       <=> SameHostAndPath(Get(page.canonical.url), page.url)
                /\ LowerSeq(Get(page.canonical.url).host) # LowerSeq(page.url.host)
                       => ~page.canonical.consistent_with_url

\* The page https://ex.com/a1 with the canonical link file:///a1, found
\* consistent.
C12_Witness ==
    /\ articles.pages # <<>>
    /\ articles.pages[1].url = Url(<<"ex", "com">>, <<"/", "a1">>)
    /\ articles.pages[1].canonical.url = Some(Url(<<>>, <<"/", "a1">>))
    /\ articles.pages[1].canonical.consistent_with_url

RssRoots == {"rss", "RSS"}
FeedRoots == {"feed", "atom:feed"}

\* The document has no entry list: it is not well-formed, its root is neither
\* rss nor feed, or its rss root has no channel child.
Unparsable(doc) ==
    \/ ~doc.wellformed
    \/ doc.root \notin RssRoots \cup FeedRoots
    \/ doc.root \in RssRoots /\ ~doc.channel

\* The number of entry children of a feed root, of item children of the
\* channel of an rss root.
EntryNodes(doc) ==
    LET names == IF doc.root \in RssRoots THEN {"item"} ELSE {"entry", "atom:entry"}
    IN  Cardinality({i \in DOMAIN doc.nodes : doc.nodes[i].tag \in names})

\* C13: a candidate whose document is not well-formed, has a root that is
\* neither rss nor feed, or has an rss root without channel is recorded with no
\* entry and a parse error; a feed root gives one entry per entry child, an rss
\* root one per item child of its channel; a candidate with a parse error is
\* never the selected feed, and the candidates after it are still checked.
C13_ParseFailurePerCandidate ==
    /\ \A i \in DOMAIN feeds.checks :
          LET check == feeds.checks[i]
              served == FeedAt(check.url)
          IN  /\ (served.kind = "response" /\ served.status_code = 200) =>
                     IF Unparsable(served.body)
                     THEN check.items = <<>> /\ check.parse_error # None
                     ELSE /\ check.parse_error = None
                          /\ Len(check.items) = EntryNodes(served.body)
              /\ check.parse_error # None =>
                     /\ feeds.best # None => Get(feeds.best).url # check.url
                     /\ feed # None => Get(feed).selected_feed_url # Some(check.url)
    /\ pc = "feeds" => Len(feeds.checks) < Len(feeds.discovered)
    /\ pc # "feeds" => Len(feeds.checks) = Len(feeds.discovered)
    /\ feed # None => Get(feed).checked_feeds = feeds.checks

\* Three candidates: the first two recorded with a parse error, the third
\* selected.
C13_Witness ==
    /\ feed # None
    /\ Len(Get(feed).checked_feeds) = 3
    /\ Get(feed).checked_feeds[1].parse_error # None
    /\ Get(feed).checked_feeds[2].parse_error # None
    /\ Get(feed).selected_feed_url = Some(Get(feed).checked_feeds[3].url)
    /\ Get(feed).item_count = 3

ContentTags ==
    {"encoded", "content:encoded", "content", "media:content", "summary", "description"}

\* What the content heuristics find in the first child of the node, in
\* document order, that has a content name.
FirstContent(node) ==
    LET named == SelectSeq(node.children, LAMBDA child : child.tag \in ContentTags)
    IN  IF named = <<>> \/ Head(named).content = None
        THEN [length |-> 0, has_image |-> FALSE, looks_excerpt |-> FALSE]
        ELSE Get(Head(named).content)

\* The nodes of a parsed document that give an entry.
EntryNodesOf(doc) ==
    LET names == IF doc.root \in RssRoots THEN {"item"} ELSE {"entry", "atom:entry"}
    IN  SelectSeq(doc.nodes, LAMBDA node : node.tag \in names)

\* C14: the content length and the excerpt flag of every entry are those of the
\* first child of its node, in document order, named encoded, content, summary
\* or description; later children with those names do not change them.
C14_FirstContentChild ==
    \A i \in DOMAIN feeds.checks :
        LET check == feeds.checks[i]
            served == FeedAt(check.url)
        IN  (check.parse_error = None /\ check.items # <<>>) =>
                \A k \in DOMAIN check.items :
                    LET first == FirstContent(EntryNodesOf(served.body)[k])
                    IN  /\ check.items[k].content_length = first.length
                        /\ check.items[k].looks_excerpt = first.looks_excerpt

\* The item whose description of 800 characters is followed by an empty
\* media:content, recorded with the content length 0.
C14_Witness ==
    \E i \in DOMAIN feeds.checks :
        /\ feeds.checks[i].url = Url(TheSite.host, <<"/", "rss", "/">>)
        /\ feeds.checks[i].items[1].content_length = 0

\* The sizes of the pages with a non-null status, in page order.
FetchedSizes ==
    LET fetched == SelectSeq(articles.pages, LAMBDA pg : pg.status # None)
    IN  [i \in DOMAIN fetched |-> fetched[i].response_size_bytes]

NoindexIssue == "Some sampled articles are marked noindex"
HeavyResponseIssue == "Average sampled article response size is heavy"
RenderBlockingIssue == "Potential render-blocking scripts detected"

\* The titles of the rules that read the aggregate (reporting.py, lines 52-153).
ArticleIssues ==
    {NoindexIssue, MissingCanonicalIssue, CanonicalMismatchIssue, MissingOgImageIssue,
     MissingJsonldIssue, MissingDateIssue, MissingDimensionsIssue, HeavyResponseIssue,
     RenderBlockingIssue}

\* C15: every count of the aggregate is taken over the pages with a non-null
\* status, whatever the status code, so a page whose fetch errored adds to
\* `sampled` only; with no page fetched every metric is zero and derive_issues
\* emits none of the article-derived issues.
C15_AggregatorScope ==
    articles.summary # None =>
        LET summary == Get(articles.summary)
            pages == articles.pages
            Count(P(_)) == Cardinality({i \in FetchedPages : P(pages[i])})
            metrics == <<summary.missing_canonical, summary.canonical_mismatch,
                         summary.noindex_pages, summary.missing_og_fields.og_title,
                         summary.missing_og_fields.og_type,
                         summary.missing_og_fields.og_url,
                         summary.missing_og_fields.og_image,
                         summary.missing_publication_date_html,
                         summary.missing_jsonld_article,
                         summary.avg_response_size_bytes,
                         summary.high_blocking_script_pages,
                         summary.huge_inline_script_pages,
                         summary.missing_og_image_dimensions>>
        IN  /\ summary.sampled = Len(pages)
            /\ summary.fetched = Cardinality(FetchedPages)
            /\ summary.missing_canonical = Count(LAMBDA pg : ~pg.canonical.exists)
            /\ summary.canonical_mismatch =
                   Count(LAMBDA pg : pg.canonical.exists
                                     /\ ~pg.canonical.consistent_with_url)
            /\ summary.noindex_pages = Count(LAMBDA pg : pg.meta_robots.noindex)
            /\ summary.missing_og_fields.og_title = Count(LAMBDA pg : ~pg.open_graph.og_title)
            /\ summary.missing_og_fields.og_type = Count(LAMBDA pg : ~pg.open_graph.og_type)
            /\ summary.missing_og_fields.og_url = Count(LAMBDA pg : ~pg.open_graph.og_url)
            /\ summary.missing_og_fields.og_image = Count(LAMBDA pg : ~pg.open_graph.og_image)
            /\ summary.missing_publication_date_html =
                   Count(LAMBDA pg : ~pg.publication_date_visible_html)
            /\ summary.missing_jsonld_article =
                   Count(LAMBDA pg : pg.jsonld.article_entity_count = 0)
            /\ \A f \in JsonldFields :
                   summary.jsonld_missing_field_counts[f] =
                       Count(LAMBDA pg : f \in pg.jsonld.missing_fields)
            /\ summary.high_blocking_script_pages =
                   Count(LAMBDA pg : pg.performance.render_blocking_scripts >= 8)
            /\ summary.huge_inline_script_pages =
                   Count(LAMBDA pg : pg.performance.huge_inline_scripts > 0)
            /\ summary.missing_og_image_dimensions =
                   Count(LAMBDA pg : \/ pg.open_graph.og_image_width \in {None, Some(0)}
                                     \/ pg.open_graph.og_image_height \in {None, Some(0)})
            /\ FetchedPages # {} =>
                   summary.avg_response_size_bytes
                       = SumSeq(FetchedSizes) \div Cardinality(FetchedPages)
            /\ FetchedPages = {} =>
                   /\ \A i \in DOMAIN metrics : metrics[i] = 0
                   /\ \A f \in JsonldFields : summary.jsonld_missing_field_counts[f] = 0
                   /\ Derived => Titles(issues) \cap ArticleIssues = {}

\* Issues derived from a sample with a failed fetch, a page answered 404 and a
\* page answered 200.
C15_Witness ==
    /\ Derived
    /\ \E i, j, k \in DOMAIN articles.pages :
          /\ articles.pages[i].status = None
          /\ articles.pages[j].status = Some(404)
          /\ articles.pages[k].status = Some(200)

\* The URLs a run has to fetch, stage by stage, as far as the run has got.
NoRepeat(s) == Cardinality(Range(s)) = Len(s)

DiscoveryUrls ==
    (IF discovery.robots = None THEN <<>> ELSE <<Get(discovery.robots).url>>)
    \o [i \in DOMAIN discovery.sitemaps |-> discovery.sitemaps[i].url]
    \o (IF pc \in {"main", "robots", "sitemaps", "homepage"}
        THEN <<>> ELSE <<Url(Get(site).host, <<"/">>)>>)

EachFetchOnce ==
    /\ site # None =>
          requests = DiscoveryUrls \o SubSeq(feeds.discovered, 1, Len(feeds.checks))
                         \o SubSeq(articles.sample_urls, 1, Len(articles.pages))
    /\ NoRepeat(SITEMAP_PATHS)
    /\ NoRepeat(feeds.discovered)
    /\ NoRepeat(articles.sample_urls)
    /\ \A i \in DOMAIN discovery.sitemaps : discovery.sitemaps[i].path = SITEMAP_PATHS[i]
    /\ \A i \in DOMAIN feeds.checks : feeds.checks[i].url = feeds.discovered[i]
    /\ \A i \in DOMAIN articles.pages : articles.pages[i].url = articles.sample_urls[i]
    /\ Audited =>
          /\ Len(discovery.sitemaps) = Len(SITEMAP_PATHS)
          /\ Len(feeds.checks) = Len(feeds.discovered)
          /\ Len(articles.pages) = Len(articles.sample_urls)
          /\ Len(requests) = 1 + Len(SITEMAP_PATHS) + 1 + Len(feeds.discovered)
                                 + Len(articles.sample_urls)

\* C16 as stated: every fetch of a run is attempted exactly once (robots.txt,
\* the four sitemap paths, the homepage, each feed candidate, each sampled
\* article URL), a failed fetch is never re-issued, and no URL is requested
\* more than once in the run.
C16_NoUrlRequestedTwice == EachFetchOnce /\ NoRepeat(requests)

\* C16, amended: the requests of a run are exactly robots.txt, the four
\* sitemap paths, the homepage, the feed candidates and the sampled URLs, one
\* request each and none re-issued whatever its outcome; within a stage the
\* URLs are pairwise distinct, but a URL listed in two stages (a feed
\* candidate that a homepage anchor links is also sampled) is requested in
\* each of them.
C16_EachFetchAttemptedOnce ==
    /\ EachFetchOnce
    /\ site # None => NoRepeat(DiscoveryUrls)

\* A finished run in which the request of a feed candidate failed and the
\* same URL, linked by a homepage anchor, was then fetched as a sampled article.
C16_Witness ==
    /\ Audited
    /\ \E k \in DOMAIN feeds.checks, i \in DOMAIN articles.pages :
          /\ feeds.checks[k].status = None
          /\ articles.pages[i].url = feeds.checks[k].url

\* The input without the scheme token it starts with, and the scheme of the result.
StrippedSite == strip(args.site)
GivenScheme == StrippedSite # <<>> /\ Head(StrippedSite) \in {"http://", "https://"}
AfterScheme == IF GivenScheme THEN Tail(StrippedSite) ELSE StrippedSite

\* The place of the first token of s that is not part of the host.
HostEnd(s) ==
    LET stops == {i \in DOMAIN s : s[i] \in {"/", "?q", "#f", "http://", "https://"}}
    IN  IF stops = {} THEN Len(s) + 1 ELSE CHOOSE i \in stops : \A j \in stops : i <= j

\* What s has before its first "/", "?" or "#" (of a scheme token, whose
\* "//" ends it, the name and the colon).
UpToSlash(s) ==
    LET k == HostEnd(s)
    IN  SubSeq(s, 1, k - 1)
        \o (IF k <= Len(s) /\ s[k] \in {"http://", "https://"}
            THEN <<SchemeName(s[k])>> ELSE <<>>)

C18_HeavyIffAverageOverThreshold ==
    Derived =>
        LET fetched == Cardinality(FetchedPages)
        IN  /\ Issue("P2", HeavyResponseIssue) \in Range(issues)
                  <=> (fetched > 0 /\ SumSeq(FetchedSizes) > 1500000 * fetched)
            /\ \A i \in DOMAIN issues :
                  issues[i].title = HeavyResponseIssue => issues[i].priority = "P2"

\* Issues derived from two fetched pages of 1,500,000 and 1,500,001 bytes:
\* an average of 1,500,000.5 bytes.
C18_Witness ==
    /\ Derived
    /\ Cardinality(FetchedPages) = 2
    /\ SumSeq(FetchedSizes) = 3000001

\* The feed stage is over: the homepage and every feed candidate were fetched
\* and _audit_feed has returned.
FeedStageDone ==
    /\ Len(requests) >= 1 + Len(SITEMAP_PATHS) + 1 + Len(feeds.discovered)
    /\ requests[1 + Len(SITEMAP_PATHS) + 1] = Url(Get(site).host, <<"/">>)
    /\ Len(feeds.checks) = Len(feeds.discovered)
    /\ feed # None

ArticlesInOrder ==
    /\ (articles.sample_urls # <<>> \/ articles.pages # <<>>) => FeedStageDone
    /\ Len(articles.pages) <= Len(articles.sample_urls)
    /\ \A i \in DOMAIN articles.pages : articles.pages[i].url = articles.sample_urls[i]
    /\ articles.summary # None =>
          /\ Len(articles.pages) = Len(articles.sample_urls)
          /\ Get(articles.summary).sampled = Len(articles.sample_urls)

\* A step that fetches an article or computes the aggregate leaves the
\* sampled list and the feed stage's results as they are, and an article
\* fetch is the request of the next URL of the list.
ArticleStepKeepsSample ==
    (articles.pages' # articles.pages \/ articles.summary' # articles.summary) =>
        /\ articles.sample_urls' = articles.sample_urls
        /\ feeds' = feeds /\ feed' = feed /\ homepage' = homepage
        /\ articles.summary = None
        /\ articles.pages' # articles.pages =>
              /\ Len(articles.pages') = Len(articles.pages) + 1
              /\ SubSeq(articles.pages', 1, Len(articles.pages)) = articles.pages
              /\ requests' = Append(requests, articles.sample_urls[Len(articles.pages')])

\* C19: no article is fetched before the homepage fetch and every feed
\* candidate's fetch are over, the sampled list does not change once the
\* first article is fetched, the aggregate is computed after every sampled
\* article was analysed, and pages[i] is the finding for sample_urls[i].
C19_StageOrdering == []ArticlesInOrder /\ [][ArticleStepKeepsSample]_vars

\* A finished run that analysed two sampled URLs.
C19_Witness ==
    /\ Audited
    /\ Len(articles.pages) = 2
    /\ articles.pages[1].url # articles.pages[2].url
    /\ articles.summary # None

\* What a JSON value holds one level down where collect descends: the
\* elements of a list, and of an object's @graph when that is a list.
Below(nodes) ==
    UNION {Range(n.children) : n \in {m \in nodes : m.kind = "list" \/ m.graph_is_list}}

\* The objects of a page's scripts: at the top level, in lists and in @graph
\* lists, down to the depth the documents have.
EntitiesOf(scripts) ==
    LET top == {Get(scripts[i]) : i \in {j \in DOMAIN scripts : scripts[j] # None}}
        all == top \cup Below(top) \cup Below(Below(top)) \cup Below(Below(Below(top)))
    IN  {n \in all : n.kind = "object"}

ArticleTyped(entity) ==
    \E i \in DOMAIN entity.type.names :
        entity.type.names[i] \in {"Article", "NewsArticle", "BlogPosting"}

\* C20 (stated of the page analysed last, for every document that gives its
\* finding): a page's missing-field set is empty when none of its JSON-LD entities
\* is Article-typed, and the page then counts under missing_jsonld_article
\* only; otherwise it has headline, datePublished, dateModified, image exactly
\* when no Article-typed entity has a non-empty value for the field, and
\* author.name, publisher.name exactly when no Article-typed entity has the
\* field as an object with a non-empty name or a list with such an object.
\* Objects in @graph lists and in lists are entities.
C20_JsonldRequiredFields ==
    /\ articles.pages # <<>> =>
          \A scripts \in SeqsUpTo(ScriptValues, MaxScripts) :
              articles.pages[Len(articles.pages)].jsonld = JsonldFindings(scripts) =>
              LET found == articles.pages[Len(articles.pages)].jsonld
                  typed == {e \in EntitiesOf(scripts) : ArticleTyped(e)}
                  Named(v) == v.kind = "object" /\ v.name \notin {None, Some("")}
                  NamedIn(v) == Named(v) \/ (v.kind = "list"
                                             /\ \E k \in DOMAIN v.items : Named(v.items[k]))
              IN  /\ found.article_entity_count = 0 <=> typed = {}
                  /\ found.entity_count = 0 <=> EntitiesOf(scripts) = {}
                  /\ typed = {} => found.missing_fields = {}
                  /\ found.missing_fields \subseteq JsonldFields
                  /\ typed # {} =>
                        /\ \A f \in {"headline", "datePublished", "dateModified", "image"} :
                              f \in found.missing_fields
                                  <=> ~\E e \in typed : e.fields[f] \notin {None, Some("")}
                        /\ "author.name" \in found.missing_fields
                              <=> ~\E e \in typed : NamedIn(e.fields.author)
                        /\ "publisher.name" \in found.missing_fields
                              <=> ~\E e \in typed : NamedIn(e.fields.publisher)
    /\ articles.summary # None =>
          LET summary == Get(articles.summary)
              untyped == {i \in DOMAIN articles.pages :
                             articles.pages[i].jsonld.article_entity_count = 0}
          IN  /\ summary.missing_jsonld_article = Cardinality(untyped)
              /\ \A f \in JsonldFields :
                    summary.jsonld_missing_field_counts[f]
                        <= Len(articles.pages) - Cardinality(untyped)

\* A page whose only Article-typed entities sit in an @graph list, one of them
\* inside a nested list: between them only publisher.name is missing.
C20_Witness ==
    /\ articles.pages # <<>>
    /\ articles.pages[1].jsonld =
           [entity_count |-> 3, article_entity_count |-> 2,
            missing_fields |-> {"publisher.name"}]

\* What a record has to hold for the outcome of its fetch: a null status and
\* an error for a transport error, the response's status code and no error
\* for a response.
RecordsOutcome(record, outcome) ==
    IF outcome.kind = "error"
    THEN record.status = None /\ record.error # None
    ELSE record.status = Some(outcome.status_code) /\ record.error = None

\* C21: in the robots findings and in every checked-feed record the status is
\* null exactly when the fetch ended in a transport error, with the error set;
\* for a response of any status code, 4xx and 5xx included, the status is
\* that code and the error is null; the robots rule sets are empty whenever
\* the robots fetch failed or returned a non-success status.
C21_FetchOutcomeRecords ==
    /\ discovery.robots # None =>
          LET robots == Get(discovery.robots)
          IN  /\ robots.status = None <=> robots.error # None
              /\ \A outcome \in FetchOutcomes(RobotsTexts) \cup {Response(404, <<>>)} :
                    robots = RobotsData(Get(site), outcome) =>
                        /\ RecordsOutcome(robots, outcome)
                        /\ (outcome.kind = "error" \/ outcome.status_code >= 400) =>
                              /\ robots.disallow_rules = <<>>
                              /\ robots.sitemap_lines = <<>>
                              /\ robots.potentially_blocking_rules = <<>>
    /\ \A i \in DOMAIN feeds.checks :
          LET check == feeds.checks[i]
          IN  /\ check.status = None <=> check.error # None
              /\ \A outcome \in FetchOutcomes(FeedDocs) \cup {Response(404, MalformedFeed)} :
                    (\E best \in {None, feeds.best} :
                        check = CheckFeed(check.url, outcome, best).entry)
                        => RecordsOutcome(check, outcome)

\* robots.txt answered 404 and a feed candidate answered 404: both records
\* with neither a status nor an error.
C21_Witness ==
    /\ discovery.robots # None
    /\ Get(discovery.robots).status = None
    /\ Get(discovery.robots).error = None
    /\ \E i \in DOMAIN feeds.checks :
          feeds.checks[i].status = None /\ feeds.checks[i].error = None

\* C22: in every summary 0 <= fetched <= sampled, each count lies between 0
\* and fetched, and missing_canonical + canonical_mismatch <= fetched: no
\* page counts both as missing its canonical link and as mismatching it.
C22_AggregateBounds ==
    articles.summary # None =>
        LET summary == Get(articles.summary)
            counts == <<summary.noindex_pages,
                        summary.missing_canonical,
                        summary.canonical_mismatch,
                        summary.missing_og_fields.og_title,
                        summary.missing_og_fields.og_type,
                        summary.missing_og_fields.og_url,
                        summary.missing_og_fields.og_image,
                        summary.missing_publication_date_html,
                        summary.missing_jsonld_article,
                        summary.high_blocking_script_pages,
                        summary.huge_inline_script_pages,
                        summary.missing_og_image_dimensions>>
        IN  /\ 0 <= summary.fetched
            /\ summary.fetched <= summary.sampled
            /\ summary.sampled = Len(articles.pages)
            /\ \A i \in DOMAIN counts : 0 <= counts[i] /\ counts[i] <= summary.fetched
            /\ \A f \in JsonldFields :
                  /\ 0 <= summary.jsonld_missing_field_counts[f]
                  /\ summary.jsonld_missing_field_counts[f] <= summary.fetched
            /\ summary.missing_canonical + summary.canonical_mismatch <= summary.fetched
            /\ \A i \in DOMAIN articles.pages :
                  articles.pages[i].status # None =>
                      ~(/\ ~articles.pages[i].canonical.exists
                        /\ articles.pages[i].canonical.consistent_with_url)

\* A summary of fewer fetched than sampled pages, each fetched page either
\* without a canonical link or with a mismatching one.
C22_Witness ==
    /\ articles.summary # None
    /\ Get(articles.summary).fetched < Get(articles.summary).sampled
    /\ Get(articles.summary).missing_canonical >= 1
    /\ Get(articles.summary).canonical_mismatch >= 1
    /\ Get(articles.summary).missing_canonical + Get(articles.summary).canonical_mismatch
           = Get(articles.summary).fetched

\* C23: a selected feed without entries has a true risk verdict, so an issue
\* list with the top-tier "No valid RSS feed items found" issue also has the
\* second-tier feed-risk issue; every rule contributes at most one issue, so
\* a list has at most 4 P0, 6 P1 and 3 P2 issues, and the payload's
\* priority_counts add up to the length of its issue list.
C23_FeedEmptyImpliesFeedRisk ==
    /\ feed # None =>
          (Get(feed).item_count = 0 =>
              /\ Get(feed).newsbreak_risk
              /\ Get(feed).newsbreak_risk_reasons = <<NoItemsReason>>)
    /\ Derived =>
          LET payload == build_report_payload(Audit)
              counts == payload.priority_counts
          IN  /\ Issue("P0", FeedEmptyIssue) \in Range(issues)
                    <=> Get(feed).item_count = 0
              /\ Issue("P0", FeedEmptyIssue) \in Range(issues)
                    => Issue("P1", FeedRiskIssue) \in Range(issues)
              /\ Cardinality(Titles(issues)) = Len(issues)
              /\ CountTier(issues, "P0") <= 4
              /\ CountTier(issues, "P1") <= 6
              /\ CountTier(issues, "P2") <= 3
              /\ payload.issues = issues
              /\ counts.P0 = CountTier(issues, "P0")
              /\ counts.P1 = CountTier(issues, "P1")
              /\ counts.P2 = CountTier(issues, "P2")
              /\ counts.P0 + counts.P1 + counts.P2 = Len(issues)

\* Issues derived with no feed selected: the feed-empty issue among four P0
\* issues, and the feed-risk issue.
C23_Witness ==
    /\ Derived
    /\ Get(feed).item_count = 0
    /\ CountTier(issues, "P0") = 4
    /\ Issue("P1", FeedRiskIssue) \in Range(issues)

=============================================================================
